---------------------------- MODULE Spec2Model ----------------------------
(***************************************************************************)
(* State-machine model of the rx-player core: the Player controller        *)
(* (src/unnamed/part_001) and the BandwidthEstimator                        *)
(* (src/unnamed/part_000).                                                  *)
(*                                                                         *)
(* The Player's handlers run to completion on one thread; each is an       *)
(* operator from a player record to a player record, and each action of    *)
(* Spec commits one whole handler.  Event listeners registered on the      *)
(* player are taken not to call back into the player under Spec.           *)
(***************************************************************************)
EXTENDS Integers, Sequences, FiniteSets, TLC

VARIABLES
    state,        \* Player.state
    fatalError,   \* Player._fatalError
    manifest,     \* Player._manifest
    playing,      \* current value of the BehaviorSubject Player._playing$
    disposed,     \* dispose() has set _clearLoaded$, _stream$, _createPipelines ... to null
    pipes,        \* what each loadVideo call set up, in the order of the calls
    events,       \* what the last operation emitted, in order
    thrown,       \* the exception the last operation raised, or NoThrow
    lastOp,       \* the last operation run, with its input
    currentRepresentations,  \* Player._currentRepresentations (video, audio)
    currentAdaptations,      \* Player._currentAdaptations (video, audio)
    recordedEvents,          \* Player._recordedEvents
    abrManager,              \* the manual bitrates held by Player._abrManager
    \* ---- BandwidthEstimator
    _fastEWMA,                   \* BandwidthEstimator._fastEWMA
    _slowEWMA,                   \* BandwidthEstimator._slowEWMA
    _bytesSampled,               \* BandwidthEstimator._bytesSampled
    _lowLatencyMode,             \* BandwidthEstimator._lowLatencyMode
    _lowLatencyBandwidthBuffer,  \* BandwidthEstimator._lowLatencyBandwidthBuffer
    before,       \* the estimator as it was when its last operation started
    beOp,         \* the estimator's last operation, with its arguments
    ret,          \* what the estimator's last operation returned
    \* ---- prepareSourceBuffer
    subscriptions,        \* the subscriptions to prepareSourceBuffer(elt, codec)
    queuedSourceBuffers,  \* the QueuedSourceBuffers created, in order
    msOp                  \* the last step of prepareSourceBuffer's observables

pvars == <<state, fatalError, manifest, playing, disposed, pipes,
           events, thrown, lastOp, currentRepresentations, currentAdaptations,
           recordedEvents, abrManager>>

bevars == <<_fastEWMA, _slowEWMA, _bytesSampled, _lowLatencyMode,
            _lowLatencyBandwidthBuffer, before, beOp, ret>>

msvars == <<subscriptions, queuedSourceBuffers, msOp>>

\* ------------------------------------------------------------------ bounds

\* number of loadVideo calls in one behaviour
MaxLoads == 3

\* number of loadVideo calls in one behaviour that follows the content
\* (tracks, bitrates, settings) of the player
MaxContentLoads == 1

\* number of subscriptions to prepareSourceBuffer in one behaviour
MaxSubscriptions == 2

\* number of media sources openMediaSource emits to one subscription
MaxMediaSources == 2

\* the samples an EWMA takes between two resets weigh at most this many
\* times ten seconds in all
MaxWeight == 2

\* ------------------------------------------------------ PLAYER STATES

PLAYER_STOPPED   == "STOPPED"
PLAYER_LOADED    == "LOADED"
PLAYER_LOADING   == "LOADING"
PLAYER_PLAYING   == "PLAYING"
PLAYER_PAUSED    == "PAUSED"
PLAYER_ENDED     == "ENDED"
PLAYER_BUFFERING == "BUFFERING"
PLAYER_SEEKING   == "SEEKING"

PlayerStates ==
    {PLAYER_STOPPED, PLAYER_LOADED, PLAYER_LOADING, PLAYER_PLAYING,
     PLAYER_PAUSED, PLAYER_ENDED, PLAYER_BUFFERING, PLAYER_SEEKING}

Null      == "null"
NoThrow   == "none"
TypeError == "TypeError"

\* inputs
Errors        == {"E1", "E2"}          \* fatal errors a Stream can throw
Manifests     == {"M1"}                \* manifests a Stream can emit
StalledValues == {Null, "seeking", "buffering"}  \* payloads of "stalled" events
Warnings      == {"W1"}                \* non-fatal errors of the error stream
Segments      == {"S1"}                \* segments of "pipeline" events
BufferTypes   == {"video", "audio"}    \* bufferType of "buffer" events

\* the representations and adaptations of a content
Representations == {"R1", "R2"}
Adaptations     == {"A1", "A12"}

\* representation.bitrate
bitrate(representation) == IF representation = "R1" THEN 1 ELSE 2

\* adaptation.representations
representations(adaptation) ==
    IF adaptation = "A1" THEN {"R1"} ELSE {"R1", "R2"}

\* adaptation.getAvailableBitrates()
getAvailableBitrates(adaptation) ==
    {bitrate(x) : x \in representations(adaptation)}

\* `undefined` given as a bitrate: !== 0, and indexOf finds it in no list of
\* bitrates
NoBitrate == -1

\* bitrates given to the setters: automatic (0), a bitrate that "A12" has
\* and "A1" has not, and undefined
BitrateInputs == {0, 2, NoBitrate}
\* ceilings given to the setters
CeilingInputs == {1}
\* durations given to the setters of the buffer's sizes
SecondsInputs == {30}

\* function inferPlayerState(isPlaying, stalled)
inferPlayerState(isPlaying, stalled) ==
    IF stalled # Null
    THEN (IF stalled = "seeking" THEN PLAYER_SEEKING ELSE PLAYER_BUFFERING)
    ELSE IF isPlaying THEN PLAYER_PLAYING
    ELSE PLAYER_PAUSED

\* ------------------------------------------------------ the player record

Cur ==
    [state |-> state, fatalError |-> fatalError, manifest |-> manifest,
     playing |-> playing, disposed |-> disposed, pipes |-> pipes,
     events |-> events, thrown |-> thrown,
     currentRepresentations |-> currentRepresentations,
     currentAdaptations |-> currentAdaptations,
     recordedEvents |-> recordedEvents, abrManager |-> abrManager]

\* a handler starts with an empty emission log and no exception
Begin(r) == [r EXCEPT !.events = <<>>, !.thrown = NoThrow]

Throw(r, e) == [r EXCEPT !.thrown = e]

\* EventEmitter.trigger(type, value): the listeners see the player as it is now
trigger(r, type, value) ==
    [r EXCEPT !.events =
        Append(@, [type |-> type, value |-> value,
                   st |-> r.state, err |-> r.fatalError])]

\* _setPlayerState emitting the state it is given, changed or not
_setPlayerState_always(r, s) ==
    trigger([r EXCEPT !.state = s], "playerStateChange", s)

\* Player._setPlayerState(s)
_setPlayerState(r, s) ==
    IF r.state # s
    THEN trigger([r EXCEPT !.state = s], "playerStateChange", s)
    ELSE r

\* the object {}
EmptyObject == [k \in {} |-> 0]

\* { video: null, audio: null }
NoTracks == [video |-> Null, audio |-> Null]

\* Player._resetContentState()
_resetContentState(r) ==
    trigger([r EXCEPT !.manifest = Null,
                      !.currentRepresentations = NoTracks,
                      !.currentAdaptations = NoTracks,
                      !.recordedEvents = EmptyObject,
                      !.fatalError = Null],
            "_imageTrack$", Null)

\* Player._recordState(type, value)
_recordState(r, type, value) ==
    IF type \in DOMAIN r.recordedEvents /\ r.recordedEvents[type] = value
    THEN r
    ELSE trigger(
            [r EXCEPT !.recordedEvents =
                [k \in DOMAIN r.recordedEvents \cup {type} |->
                    IF k = type THEN value ELSE r.recordedEvents[k]]],
            type \o "Change", value)

\* the two this._stream$.next(x) calls ending each stream handler: the first
\* is guarded by if (this._stream$), the second is not
legacyNext(r, type) ==
    LET r1 == IF r.disposed THEN r ELSE trigger(r, "_stream$", type)
    IN  IF r1.disposed THEN Throw(r1, TypeError) ELSE trigger(r1, "_stream$", type)

\* ------------------------------------ the contents and their pipelines

\* pipes[i] is what the i-th loadVideo call set up.  Its stateChanges
\* pipeline is
\*   loaded.mapTo(LOADED).concat(combineLatest(_playing$, stalled, infer))
\*         .distinctUntilChanged().startWith(LOADING)
\* phase "loading":  subscribed to `loaded`, which has not emitted
\* phase "combined": subscribed to _playing$ and to `stalled`
\* phase "dead":     ended by an error
\* stalled: the last value of `stalled`; last: the last value that passed
\* distinctUntilChanged
\* unsubscribed: the variable `unsubscribed` of the call: its take(1)
\*   subscriber to _clearLoaded$ has run, and the play/pause, text-track and
\*   timing subscriptions, made just after it, have ended
\* connected: the stream is connected (streamDisposable) and has not ended
\* warnings: the call's subscription to the error stream is live
NoState == "none"
NewPipe == [phase |-> "loading", stalled |-> Null, last |-> NoState,
            unsubscribed |-> FALSE, connected |-> FALSE, warnings |-> FALSE]

\* the contents whose stream is connected
Connected(r) == {i \in 1..Len(r.pipes) : r.pipes[i].connected}

\* distinctUntilChanged, then the subscriber x => this._setPlayerState(x)
stateChangesNext(r, i, x) ==
    IF r.pipes[i].last = x
    THEN r
    ELSE _setPlayerState([r EXCEPT !.pipes[i].last = x], x)

\* the move to combineLatest with a _playing$ that replays nothing: paused
\* until a play event
subscribeCombined_noReplay(r, i) ==
    LET r1 == [r EXCEPT !.pipes[i].phase = "combined", !.pipes[i].stalled = Null]
    IN  stateChangesNext(r1, i, inferPlayerState(FALSE, Null))

\* concat moves on to combineLatest(_playing$, stalled.startWith(null)):
\* _playing$ replays its value, stalled starts with null
subscribeCombined(r, i) ==
    LET r1 == [r EXCEPT !.pipes[i].phase = "combined", !.pipes[i].stalled = Null]
    IN  stateChangesNext(r1, i, inferPlayerState(r1.playing, Null))

RECURSIVE playingNotify(_, _)
playingNotify(r, i) ==
    IF i > Len(r.pipes) THEN r
    ELSE playingNotify(
            IF r.pipes[i].phase = "combined"
            THEN stateChangesNext(r, i,
                     inferPlayerState(r.playing, r.pipes[i].stalled))
            ELSE r,
            i + 1)

\* this._playing$.next(v): every pipeline subscribed to _playing$ is notified,
\* in subscription order
playingNext(r, v) == playingNotify([r EXCEPT !.playing = v], 1)

RECURSIVE clearLoadedNext(_)

\* _onStreamComplete leaving the content's state as it is
_onStreamComplete_noReset(r) ==
    LET r2 == _setPlayerState(r, PLAYER_ENDED)
        r3 == clearLoadedNext(r2)
    IN  IF r3.thrown # NoThrow THEN r3
        ELSE legacyNext(r3, "ended")

\* Player._onStreamComplete()
_onStreamComplete(r) ==
    LET r1 == _resetContentState(r)
        r2 == _setPlayerState(r1, PLAYER_ENDED)
        r3 == clearLoadedNext(r2)
    IN  IF r3.thrown # NoThrow THEN r3
        ELSE legacyNext(r3, "ended")

\* The stream of content i completes: a pipeline still waiting for `loaded`
\* moves on to combineLatest(_playing$, stalled) before _onStreamComplete
\* runs; a pipeline already there stays subscribed to _playing$.
streamComplete(r, i) ==
    LET r0 == [r EXCEPT !.pipes[i].connected = FALSE]
    IN  IF r0.pipes[i].phase = "loading"
        THEN _onStreamComplete(subscribeCombined(r0, i))
        ELSE _onStreamComplete(r0)

\* the observers content i has on _clearLoaded$, in subscription order: the
\* take(1) subscriber (line 555), which unsubscribes streamDisposable when
\* connect() has set it; the takeUntil of the error stream's subscription
\* (line 586); the takeUntil of the stream itself (line 534), subscribed by
\* connect() and gone with streamDisposable, which completes the stream
clearLoadedNotify(r, i) ==
    LET r1 == IF r.pipes[i].unsubscribed THEN r
              ELSE [r EXCEPT !.pipes[i].unsubscribed = TRUE,
                             !.pipes[i].connected = FALSE]
        r2 == [r1 EXCEPT !.pipes[i].warnings = FALSE]
    IN  IF r2.pipes[i].connected THEN streamComplete(r2, i) ELSE r2

RECURSIVE clearLoadedFrom(_, _)
clearLoadedFrom(r, i) ==
    IF i > Len(r.pipes) \/ r.thrown # NoThrow THEN r
    ELSE clearLoadedFrom(clearLoadedNotify(r, i), i + 1)

\* this._clearLoaded$.next().  A TypeError once dispose() has set
\* _clearLoaded$ to null.
clearLoadedNext(r) ==
    IF r.disposed
    THEN Throw(r, TypeError)
    ELSE clearLoadedFrom(trigger(r, "_clearLoaded$", Null), 1)

stop_unguarded(r) ==
    LET r1 == _resetContentState(r)
        r2 == clearLoadedNext(r1)
    IN  IF r2.thrown # NoThrow THEN r2 ELSE _setPlayerState(r2, PLAYER_STOPPED)

\* Player.stop()
stop(r) ==
    IF r.state # PLAYER_STOPPED
    THEN LET r1 == _resetContentState(r)
             r2 == clearLoadedNext(r1)
         IN  IF r2.thrown # NoThrow THEN r2
             ELSE _setPlayerState(r2, PLAYER_STOPPED)
    ELSE r

\* Player.dispose()
dispose(r) ==
    LET r1 == stop(r)
    IN  IF r1.thrown # NoThrow THEN r1
        ELSE IF r1.disposed THEN Throw(r1, TypeError)  \* null._clearLoaded$.complete()
        ELSE [r1 EXCEPT !.disposed = TRUE]

\* ------------------------------------------------------------ loadVideo

\* Player.loadVideo(options), with a listener of playerStateChange that
\* calls stop() when it is told LOADING (stopsOnLoading), or without
loadVideoListening(r, autoPlay, stopsOnLoading) ==
    LET c  == Len(r.pipes) + 1
        r1 == stop(r)
        r2 == playingNext(r1, autoPlay)
        r3 == [r2 EXCEPT !.pipes = Append(@, NewPipe)]
        r4 == _setPlayerState(r3, PLAYER_LOADING)       \* startWith(LOADING)
        r5 == IF stopsOnLoading THEN stop(r4) ELSE r4
        r6 == [r5 EXCEPT !.pipes[c].warnings = TRUE,    \* errorStream...subscribe
                         !.pipes[c].connected = TRUE]   \* stream.connect()
    IN  IF r1.thrown # NoThrow THEN r1
        ELSE IF r2.disposed THEN Throw(r2, TypeError)   \* null _createPipelines
        ELSE IF r6.pipes[c].unsubscribed THEN r6
        ELSE trigger(r6, "currentTimeChange", Null)     \* _triggerTimeChange()

\* Player.loadVideo(options), no listener calling the player
loadVideo(r, autoPlay) == loadVideoListening(r, autoPlay, FALSE)

\* ------------------------------------------------------- stream handlers

\* Player._onManifestNext(value)
_onManifestNext(r, m) ==
    trigger([r EXCEPT !.manifest = m], "manifestChange", m)

\* Player._onManifestUpdateNext(value)
_onManifestUpdateNext(r, m) ==
    trigger([r EXCEPT !.manifest = m], "manifestUpdate", m)

\* _onBufferNext recording every bitrate as the video bitrate
_onBufferNext_videoOnly(r, bufferType, adaptation, representation) ==
    LET r1 == [r EXCEPT !.currentRepresentations[bufferType] = representation,
                        !.currentAdaptations[bufferType] = adaptation]
        btr == IF representation # Null /\ bitrate(representation) # 0
               THEN bitrate(representation) ELSE -1
    IN  _recordState(r1, "videoBitrate", btr)

\* Player._onBufferNext({ bufferType, adaptation, representation })
_onBufferNext(r, bufferType, adaptation, representation) ==
    LET r1 == [r EXCEPT !.currentRepresentations[bufferType] = representation,
                        !.currentAdaptations[bufferType] = adaptation]
        btr == IF representation # Null /\ bitrate(representation) # 0
               THEN bitrate(representation) ELSE -1
        r2 == IF bufferType = "video"
              THEN _recordState(r1, "videoBitrate", btr) ELSE r1
    IN  IF bufferType = "audio"
        THEN _recordState(r2, "audioBitrate", btr) ELSE r2

\* Player._onStreamNext(streamInfos)
_onStreamNext(r, type, value) ==
    LET r1 == CASE type = "buffer" ->
                     _onBufferNext(r, value.bufferType, value.adaptation,
                                   value.representation)
                [] type = "manifest" -> _onManifestNext(r, value)
                [] type = "manifestUpdate" -> _onManifestUpdateNext(r, value)
                [] type = "pipeline" -> trigger(r, "progress", value)
                [] OTHER -> r
    IN  legacyNext(r1, type)

\* _onErrorStreamNext handling the error as _onStreamError does
_onErrorStreamNext_fatal(r, error) ==
    legacyNext(trigger(_setPlayerState([r EXCEPT !.fatalError = error],
                                       PLAYER_STOPPED),
                       "warning", error), "warning")

\* Player._onErrorStreamNext(error)
_onErrorStreamNext(r, error) ==
    legacyNext(trigger(r, "warning", error), "warning")

_onStreamError_eventFirst(r, error) ==
    LET r1 == _resetContentState(r)
        r2 == trigger(r1, "error", error)
        r3 == [r2 EXCEPT !.fatalError = error]
        r4 == _setPlayerState(r3, PLAYER_STOPPED)
        r5 == clearLoadedNext(r4)
    IN  IF r5.thrown # NoThrow THEN r5
        ELSE legacyNext(r5, "error")

\* Player._onStreamError(error)
_onStreamError(r, error) ==
    LET r1 == _resetContentState(r)
        r2 == [r1 EXCEPT !.fatalError = error]
        r3 == _setPlayerState(r2, PLAYER_STOPPED)
        r4 == clearLoadedNext(r3)
    IN  IF r4.thrown # NoThrow THEN r4
        ELSE legacyNext(trigger(r4, "error", error), "error")

\* _onPlayPauseNext without the check of videoElement.ended
_onPlayPauseNext_whenEnded(r, type, ended) == playingNext(r, type = "play")

\* Player._onPlayPauseNext(evt)
_onPlayPauseNext(r, type, ended) ==
    IF ended # TRUE THEN playingNext(r, type = "play") ELSE r

\* The stream of content i emits {type: "loaded"}: the subject's observers
\* are, in order, the `loaded` filter of stateChanges (until it has taken
\* one) and the subscriber calling _onStreamNext.
streamLoaded(r, i) ==
    LET r1 == IF r.pipes[i].phase = "loading"
              THEN subscribeCombined(
                       stateChangesNext(r, i, PLAYER_LOADED), i)
              ELSE r
    IN  _onStreamNext(r1, "loaded", Null)

\* The stream of content i emits {type: "stalled", value: v}: _onStreamNext
\* first, then the `stalled` filter, subscribed when `loaded` completed.
streamStalled(r, i, v) ==
    LET r1 == _onStreamNext(r, "stalled", v)
    IN  IF r1.thrown # NoThrow \/ r1.pipes[i].phase # "combined" THEN r1
        ELSE stateChangesNext([r1 EXCEPT !.pipes[i].stalled = v], i,
                              inferPlayerState(r1.playing, v))

\* The stream of content i emits {type: "manifest", value: m}
streamManifest(r, m) == _onStreamNext(r, "manifest", m)

\* The stream of content i throws: a pipeline still waiting for `loaded` is
\* first in line and ends; otherwise _onStreamError runs first and the
\* `stalled` filter then ends the pipeline.
streamError(r, i, error) ==
    LET r0 == [r EXCEPT !.pipes[i].connected = FALSE]
    IN  IF r0.pipes[i].phase = "loading"
        THEN _onStreamError([r0 EXCEPT !.pipes[i].phase = "dead"], error)
        ELSE [_onStreamError(r0, error) EXCEPT !.pipes[i].phase = "dead"]

\* A connected stream emits {type: "buffer", value: {...}}
streamBuffer(r, bufferType, adaptation, representation) ==
    _onStreamNext(r, "buffer",
                  [bufferType |-> bufferType, adaptation |-> adaptation,
                   representation |-> representation])

\* A connected stream emits {type: "pipeline", value: {segment, ...}} for a
\* buffer that is not the image buffer
streamPipeline(r, segment) == _onStreamNext(r, "pipeline", segment)

\* the error stream emits a non-fatal error: every content whose subscription
\* to it is live hands it to _onErrorStreamNext
RECURSIVE errorStreamNotify(_, _, _)
errorStreamNotify(r, i, error) ==
    IF i > Len(r.pipes) \/ r.thrown # NoThrow THEN r
    ELSE errorStreamNotify(
            IF r.pipes[i].warnings THEN _onErrorStreamNext(r, error) ELSE r,
            i + 1, error)

errorStreamNext(r, error) == errorStreamNotify(r, 1, error)

\* the media element emits "play" or "pause", its `ended` as given: every
\* content whose subscription to it is live hands it to _onPlayPauseNext
RECURSIVE playChangesNotify(_, _, _, _)
playChangesNotify(r, i, type, ended) ==
    IF i > Len(r.pipes) THEN r
    ELSE playChangesNotify(
            IF ~r.pipes[i].unsubscribed
            THEN _onPlayPauseNext(r, type, ended) ELSE r,
            i + 1, type, ended)

playChangesNext(r, type, ended) == playChangesNotify(r, 1, type, ended)

\* A connected stream emits {type: "manifestUpdate", value: {manifest}}
streamManifestUpdate(r, m) == _onStreamNext(r, "manifestUpdate", m)

\* ------------------------------- a listener that loads the next content
\* The handlers below run with a listener of playerStateChange that calls
\* loadVideo when it is told the state the handler sets (STOPPED or ENDED):
\* the call runs inside _setPlayerState, before the handler goes on.

\* Player.stop(), the listener loading on STOPPED
stopReloading(r, autoPlay) ==
    IF r.state # PLAYER_STOPPED
    THEN LET r1 == _resetContentState(r)
             r2 == clearLoadedNext(r1)
         IN  IF r2.thrown # NoThrow THEN r2
             ELSE loadVideo(_setPlayerState(r2, PLAYER_STOPPED), autoPlay)
    ELSE r

\* Player._onStreamError(error), the listener loading on STOPPED
_onStreamErrorReloading(r, error, autoPlay) ==
    LET r1 == _resetContentState(r)
        r2 == [r1 EXCEPT !.fatalError = error]
        r3 == _setPlayerState(r2, PLAYER_STOPPED)
        r4 == IF r2.state # PLAYER_STOPPED THEN loadVideo(r3, autoPlay) ELSE r3
        r5 == clearLoadedNext(r4)
    IN  IF r5.thrown # NoThrow THEN r5
        ELSE legacyNext(trigger(r5, "error", error), "error")

\* Player._onStreamComplete(), the listener loading on ENDED
_onStreamCompleteReloading(r, autoPlay) ==
    LET r1 == _resetContentState(r)
        r2 == _setPlayerState(r1, PLAYER_ENDED)
        r3 == IF r1.state # PLAYER_ENDED THEN loadVideo(r2, autoPlay) ELSE r2
        r4 == clearLoadedNext(r3)
    IN  IF r4.thrown # NoThrow THEN r4
        ELSE legacyNext(r4, "ended")

\* the stream of content i throws, the listener loading on STOPPED
streamErrorReloading(r, i, error, autoPlay) ==
    LET r0 == [r EXCEPT !.pipes[i].connected = FALSE]
    IN  IF r0.pipes[i].phase = "loading"
        THEN _onStreamErrorReloading([r0 EXCEPT !.pipes[i].phase = "dead"],
                                     error, autoPlay)
        ELSE [_onStreamErrorReloading(r0, error, autoPlay)
                 EXCEPT !.pipes[i].phase = "dead"]

\* the stream of content i completes, the listener loading on ENDED
streamCompleteReloading(r, i, autoPlay) ==
    LET r0 == [r EXCEPT !.pipes[i].connected = FALSE]
    IN  IF r0.pipes[i].phase = "loading"
        THEN _onStreamCompleteReloading(subscribeCombined(r0, i), autoPlay)
        ELSE _onStreamCompleteReloading(r0, autoPlay)

\* ------------------------------------------- the representation chooser
\* ../adaptive is not among the sources; this is the chooser of the
\* specification, per track type, as far as the player can tell: the
\* manual bitrate (0: automatic), kept for the life of the player.  The
\* estimate, the ceilings and the device's state are not followed: without a
\* manual bitrate any representation can be selected.

\* Adaptive(metrics, deviceEvents, options), no option given
Adaptive == [manual |-> [video |-> 0, audio |-> 0]]

\* the representation of the lowest bitrate
lowest(adaptation) ==
    CHOOSE x \in representations(adaptation) :
        \A y \in representations(adaptation) : bitrate(x) <= bitrate(y)

\* the representation of the highest bitrate not above cap; the lowest
\* when there is none
highestBelow(adaptation, cap) ==
    LET fit == {x \in representations(adaptation) : bitrate(x) <= cap}
    IN  IF fit = {} THEN lowest(adaptation)
        ELSE CHOOSE x \in fit : \A y \in fit : bitrate(y) <= bitrate(x)

\* what the chooser can select: the manual bitrate decides alone
selections(abr, type, adaptation) ==
    IF abr.manual[type] > 0
    THEN {highestBelow(adaptation, abr.manual[type])}
    ELSE representations(adaptation)

\* adaptive.setVideoBitrate(btr), adaptive.setAudioBitrate(btr): a selection
\* the manual bitrate changes reaches the player in the same tick, as a
\* "buffer" event of the connected stream
Adaptive_setBitrate(r, type, btr) ==
    LET r1  == [r EXCEPT !.abrManager.manual[type] = btr]
        a   == r1.currentAdaptations[type]
    IN  IF Connected(r1) # {} /\ a # Null /\ btr > 0
           /\ highestBelow(a, btr) # r1.currentRepresentations[type]
        THEN streamBuffer(r1, type, a, highestBelow(a, btr))
        ELSE r1

\* adaptive.setVideoMaxBitrate(btr), adaptive.setAudioMaxBitrate(btr):
\* nothing the player holds changes
Adaptive_setMaxBitrate(r, type, btr) == r

\* ---------------------------------------------------- getters and setters

AssertionError == "AssertionError"

\* assertManifest(player): the assertion holds
assertManifest(r) == r.manifest # Null

\* Player.getManifest()
getManifest(r) == r.manifest

\* Player.getCurrentAdaptations(): <<x>> for the object x, <<>> for null
getCurrentAdaptations(r) ==
    IF r.manifest = Null THEN <<>> ELSE <<r.currentAdaptations>>

\* Player.getCurrentRepresentations()
getCurrentRepresentations(r) ==
    IF r.manifest = Null THEN <<>> ELSE <<r.currentRepresentations>>

\* Player.getAvailableVideoBitrates(), getAvailableAudioBitrates()
getAvailableVideoBitrates(r) ==
    IF r.currentAdaptations.video # Null
    THEN getAvailableBitrates(r.currentAdaptations.video) ELSE {}

getAvailableAudioBitrates(r) ==
    IF r.currentAdaptations.audio # Null
    THEN getAvailableBitrates(r.currentAdaptations.audio) ELSE {}

\* Player.getVideoBitrate(), getAudioBitrate(): <<n>> for the number n, <<>>
\* for undefined
getVideoBitrate(r) ==
    IF "videoBitrate" \in DOMAIN r.recordedEvents
    THEN <<r.recordedEvents["videoBitrate"]>> ELSE <<>>

getAudioBitrate(r) ==
    IF "audioBitrate" \in DOMAIN r.recordedEvents
    THEN <<r.recordedEvents["audioBitrate"]>> ELSE <<>>

\* setVideoBitrate handing any bitrate to the chooser
setVideoBitrate_unchecked(r, btr) ==
    IF ~assertManifest(r) THEN Throw(r, AssertionError)
    ELSE IF r.disposed THEN Throw(r, TypeError)
    ELSE Adaptive_setBitrate(r, "video", btr)

\* Player.setVideoBitrate(btr)
setVideoBitrate(r, btr) ==
    IF ~assertManifest(r) THEN Throw(r, AssertionError)
    ELSE IF ~(btr = 0 \/ btr \in getAvailableVideoBitrates(r))
    THEN Throw(r, AssertionError)
    ELSE IF r.disposed THEN Throw(r, TypeError)
    ELSE Adaptive_setBitrate(r, "video", btr)

\* Player.setAudioBitrate(btr)
setAudioBitrate(r, btr) ==
    IF ~assertManifest(r) THEN Throw(r, AssertionError)
    ELSE IF ~(btr = 0 \/ btr \in getAvailableAudioBitrates(r))
    THEN Throw(r, AssertionError)
    ELSE IF r.disposed THEN Throw(r, TypeError)
    ELSE Adaptive_setBitrate(r, "audio", btr)

\* Player.setMaxVideoBitrate(btr)
setMaxVideoBitrate(r, btr) ==
    IF r.disposed THEN Throw(r, TypeError)
    ELSE Adaptive_setMaxBitrate(r, "video", btr)

\* Player.setMaxAudioBitrate(btr)
setMaxAudioBitrate(r, btr) ==
    IF r.disposed THEN Throw(r, TypeError)
    ELSE Adaptive_setMaxBitrate(r, "audio", btr)

\* Player.setMaxBufferBehind(depthInSeconds): this.adaptive is never
\* assigned, so this.adaptive.setMaxBufferBehind is a property of undefined
setMaxBufferBehind(r, depthInSeconds) == Throw(r, TypeError)

\* Player.setMaxBufferAhead(depthInSeconds)
setMaxBufferAhead(r, depthInSeconds) == Throw(r, TypeError)

\* Player.setWantedBufferAhead(sizeInSeconds)
setWantedBufferAhead(r, sizeInSeconds) == Throw(r, TypeError)

\* ---------------------------------------------------------------- actions

Commit(r, op) ==
    /\ state' = r.state
    /\ fatalError' = r.fatalError
    /\ manifest' = r.manifest
    /\ playing' = r.playing
    /\ disposed' = r.disposed
    /\ pipes' = r.pipes
    /\ events' = r.events
    /\ thrown' = r.thrown
    /\ currentRepresentations' = r.currentRepresentations
    /\ currentAdaptations' = r.currentAdaptations
    /\ recordedEvents' = r.recordedEvents
    /\ abrManager' = r.abrManager
    /\ lastOp' = op
    /\ UNCHANGED <<bevars, msvars>>

\* new Player(options): _setPlayerState(STOPPED); _resetContentState()
PlayerInit ==
    /\ state = PLAYER_STOPPED
    /\ fatalError = Null
    /\ manifest = Null
    /\ playing = FALSE       \* BehaviorSubject(): undefined, falsy, never read before set
    /\ disposed = FALSE
    /\ pipes = <<>>
    /\ events = <<>>
    /\ thrown = NoThrow
    /\ lastOp = <<"new">>
    /\ currentRepresentations = NoTracks
    /\ currentAdaptations = NoTracks
    /\ recordedEvents = EmptyObject
    /\ abrManager = Adaptive

Stop == Commit(stop(Begin(Cur)), <<"stop">>)

Dispose == Commit(dispose(Begin(Cur)), <<"dispose">>)

LoadVideo ==
    /\ Len(pipes) < MaxLoads
    /\ \E autoPlay \in BOOLEAN :
          Commit(loadVideo(Begin(Cur), autoPlay), <<"loadVideo", autoPlay>>)

StreamLoaded ==
    \E i \in Connected(Cur) :
        Commit(streamLoaded(Begin(Cur), i), <<"loaded", i>>)

StreamStalled ==
    \E i \in Connected(Cur), v \in StalledValues :
        Commit(streamStalled(Begin(Cur), i, v), <<"stalled", v, i>>)

StreamManifest ==
    \E i \in Connected(Cur), m \in Manifests :
        Commit(streamManifest(Begin(Cur), m), <<"manifest", m, i>>)

StreamError ==
    \E i \in Connected(Cur), e \in Errors :
        Commit(streamError(Begin(Cur), i, e), <<"error", e, i>>)

StreamComplete ==
    \E i \in Connected(Cur) :
        Commit(streamComplete(Begin(Cur), i), <<"complete", i>>)

\* a "play" or "pause" event of the media element, whose `ended` is as given
PlayPause ==
    /\ \E i \in 1..Len(pipes) : ~pipes[i].unsubscribed
    /\ \E type \in {"play", "pause"}, ended \in BOOLEAN :
          Commit(playChangesNext(Begin(Cur), type, ended),
                 <<"playpause", type, ended>>)

\* loadVideo from a player with a listener of playerStateChange that calls
\* stop() when it is told LOADING
LoadVideoStopping ==
    /\ Len(pipes) < MaxLoads
    /\ \E autoPlay \in BOOLEAN :
          Commit(loadVideoListening(Begin(Cur), autoPlay, TRUE),
                 <<"loadVideo", autoPlay, "stop">>)

\* ---- the actions of a player whose listener loads the next content

StopReloading ==
    /\ Len(pipes) < MaxLoads
    /\ state # PLAYER_STOPPED
    /\ \E autoPlay \in BOOLEAN :
          Commit(stopReloading(Begin(Cur), autoPlay),
                 <<"stop", "loadVideo", autoPlay>>)

StreamErrorReloading ==
    /\ Len(pipes) < MaxLoads
    /\ \E i \in Connected(Cur), e \in Errors, autoPlay \in BOOLEAN :
          Commit(streamErrorReloading(Begin(Cur), i, e, autoPlay),
                 <<"error", e, i, "loadVideo", autoPlay>>)

StreamCompleteReloading ==
    /\ Len(pipes) < MaxLoads
    /\ \E i \in Connected(Cur), autoPlay \in BOOLEAN :
          Commit(streamCompleteReloading(Begin(Cur), i, autoPlay),
                 <<"complete", i, "loadVideo", autoPlay>>)

\* ---- the actions on the content of the player: tracks, bitrates, settings

\* loadVideo, for the behaviours that follow the content
LoadContent ==
    /\ Len(pipes) < MaxContentLoads
    /\ \E autoPlay \in BOOLEAN :
          Commit(loadVideo(Begin(Cur), autoPlay), <<"loadVideo", autoPlay>>)

StreamBuffer ==
    \E i \in Connected(Cur), bufferType \in BufferTypes,
       adaptation \in Adaptations \cup {Null} :
       \E representation \in
              (IF adaptation = Null THEN {Null}
               ELSE selections(abrManager, bufferType, adaptation)) :
          Commit(streamBuffer(Begin(Cur), bufferType, adaptation,
                              representation),
                 <<"buffer", bufferType, adaptation, representation, i>>)

StreamPipeline ==
    \E i \in Connected(Cur), segment \in Segments :
        Commit(streamPipeline(Begin(Cur), segment), <<"pipeline", segment, i>>)

StreamManifestUpdate ==
    \E i \in Connected(Cur), m \in Manifests :
        Commit(streamManifestUpdate(Begin(Cur), m), <<"manifestUpdate", m, i>>)

\* the error stream emits a non-fatal error
Warning ==
    /\ \E i \in 1..Len(pipes) : pipes[i].warnings
    /\ \E w \in Warnings :
          Commit(errorStreamNext(Begin(Cur), w), <<"warning", w>>)

SetVideoBitrate ==
    \E btr \in BitrateInputs :
        Commit(setVideoBitrate(Begin(Cur), btr), <<"setVideoBitrate", btr>>)

SetAudioBitrate ==
    \E btr \in BitrateInputs :
        Commit(setAudioBitrate(Begin(Cur), btr), <<"setAudioBitrate", btr>>)

SetMaxVideoBitrate ==
    \E btr \in CeilingInputs :
        Commit(setMaxVideoBitrate(Begin(Cur), btr),
               <<"setMaxVideoBitrate", btr>>)

SetMaxAudioBitrate ==
    \E btr \in CeilingInputs :
        Commit(setMaxAudioBitrate(Begin(Cur), btr),
               <<"setMaxAudioBitrate", btr>>)

SetMaxBufferBehind ==
    \E sec \in SecondsInputs :
        Commit(setMaxBufferBehind(Begin(Cur), sec),
               <<"setMaxBufferBehind", sec>>)

SetMaxBufferAhead ==
    \E sec \in SecondsInputs :
        Commit(setMaxBufferAhead(Begin(Cur), sec),
               <<"setMaxBufferAhead", sec>>)

SetWantedBufferAhead ==
    \E sec \in SecondsInputs :
        Commit(setWantedBufferAhead(Begin(Cur), sec),
               <<"setWantedBufferAhead", sec>>)

NextContent ==
    \/ Stop
    \/ Dispose
    \/ LoadContent
    \/ StreamLoaded
    \/ StreamStalled
    \/ StreamManifest
    \/ StreamError
    \/ StreamComplete
    \/ PlayPause
    \/ StreamBuffer
    \/ StreamPipeline
    \/ StreamManifestUpdate
    \/ Warning
    \/ SetVideoBitrate
    \/ SetAudioBitrate
    \/ SetMaxVideoBitrate
    \/ SetMaxAudioBitrate
    \/ SetMaxBufferBehind
    \/ SetMaxBufferAhead
    \/ SetWantedBufferAhead

Next ==
    \/ Stop
    \/ Dispose
    \/ LoadVideo
    \/ StreamLoaded
    \/ StreamStalled
    \/ StreamManifest
    \/ StreamError
    \/ StreamComplete
    \/ PlayPause

\* ====================================================== BandwidthEstimator

\* ------------------------------------------------------------- numbers
\* A JavaScript number is modelled by an exact rational n/d in lowest terms
\* (d > 0), so that equal numbers are equal records; `undefined` and NaN by
\* their own kinds.  Rounding of doubles is not modelled.
Undefined == [kind |-> "undefined", n |-> 0, d |-> 1]
NaN       == [kind |-> "NaN", n |-> 0, d |-> 1]

RECURSIVE GCD(_, _)
GCD(x, y) == IF y = 0 THEN x ELSE GCD(y, x % y)

Abs(x) == IF x < 0 THEN 0 - x ELSE x

\* the number n / d
Num(n, d) ==
    LET g == GCD(Abs(n), d)
    IN  [kind |-> "num", n |-> n \div g, d |-> d \div g]

IsNum(a) == a.kind = "num"

\* a * b
Mul(a, b) ==
    LET g1 == GCD(Abs(a.n), b.d)
        g2 == GCD(Abs(b.n), a.d)
    IN  Num((a.n \div g1) * (b.n \div g2), (a.d \div g2) * (b.d \div g1))

\* a / b, for b > 0
Div(a, b) == Mul(a, Num(b.d, b.n))

\* a + b
Add(a, b) ==
    LET g == GCD(a.d, b.d)
    IN  Num(a.n * (b.d \div g) + b.n * (a.d \div g), (a.d \div g) * b.d)

\* a - b
Sub(a, b) == Add(a, [b EXCEPT !.n = 0 - b.n])

\* a < b, a <= b
Lt(a, b)  == a.n * b.d < b.n * a.d
Leq(a, b) == a.n * b.d <= b.n * a.d

\* Math.min(a, b), Math.max(a, b)
MathMin(a, b) == IF ~IsNum(a) \/ ~IsNum(b) THEN NaN
                 ELSE IF Lt(b, a) THEN b ELSE a
MathMax(a, b) == IF ~IsNum(a) \/ ~IsNum(b) THEN NaN
                 ELSE IF Lt(a, b) THEN b ELSE a

\* ---------------------------------------------------------------- config
\* ../../config is not among the sources: the half-lives are those of the
\* specification (2 s and 10 s), the two sizes are in units chosen small.
ABR_FAST_EMA == 2
ABR_SLOW_EMA == 10
ABR_MINIMUM_CHUNK_SIZE == 10
ABR_MINIMUM_TOTAL_BYTES == 30

\* ------------------------------------------------------------------ EWMA
\* ./ewma is not among the sources; this is the EWMA of the specification:
\*   alpha = exp(log(0.5) / halfLife)
\*   addSample(weight, value): adjAlpha = alpha^weight;
\*       weightedSum = adjAlpha * weightedSum + (1 - adjAlpha) * value;
\*       totalWeight += weight
\*   getEstimate(): weightedSum / (1 - alpha^totalWeight)
\* alpha^w = 1 / 2^(w / halfLife), exact for the weights that are multiples
\* of the half-life.
EWMA(halfLife) ==
    [halfLife |-> halfLife, totalWeight |-> 0, weightedSum |-> Num(0, 1)]

\* alpha ^ weight
alphaPow(e, weight) == Num(1, 2 ^ (weight \div e.halfLife))

EWMA_addSample(e, weight, value) ==
    LET adjAlpha == alphaPow(e, weight)
    IN  [e EXCEPT !.weightedSum =
                      Add(Mul(adjAlpha, e.weightedSum),
                          Mul(Sub(Num(1, 1), adjAlpha), value)),
                  !.totalWeight = e.totalWeight + weight]

EWMA_getEstimate(e) ==
    LET zeroFactor == Sub(Num(1, 1), alphaPow(e, e.totalWeight))
    IN  IF e.totalWeight = 0 THEN NaN               \* 0 / 0
        ELSE Div(e.weightedSum, zeroFactor)

\* ------------------------------------------------------ BandwidthEstimator

CurBE ==
    [_fastEWMA |-> _fastEWMA, _slowEWMA |-> _slowEWMA,
     _bytesSampled |-> _bytesSampled, _lowLatencyMode |-> _lowLatencyMode,
     _lowLatencyBandwidthBuffer |-> _lowLatencyBandwidthBuffer]

\* new BandwidthEstimator(lowLatencyMode)
BandwidthEstimator(lowLatencyMode) ==
    [_fastEWMA |-> EWMA(ABR_FAST_EMA), _slowEWMA |-> EWMA(ABR_SLOW_EMA),
     _bytesSampled |-> 0, _lowLatencyMode |-> lowLatencyMode,
     _lowLatencyBandwidthBuffer |-> <<>>]

RECURSIVE reduceSum(_, _)
\* buf.reduce((acc, val) => acc + val, acc)
reduceSum(buf, acc) ==
    IF buf = <<>> THEN acc
    ELSE reduceSum(Tail(buf), Add(acc, Head(buf)))

\* getLowLatencyBandwidth defined from two entries on
getLowLatencyBandwidth_fromTwo(b) ==
    IF Len(b._lowLatencyBandwidthBuffer) < 2
    THEN Undefined
    ELSE Div(reduceSum(b._lowLatencyBandwidthBuffer, Num(0, 1)),
             Num(Len(b._lowLatencyBandwidthBuffer), 1))

\* BandwidthEstimator.getLowLatencyBandwidth()
getLowLatencyBandwidth(b) ==
    IF Len(b._lowLatencyBandwidthBuffer) < 3
    THEN Undefined
    ELSE Div(reduceSum(b._lowLatencyBandwidthBuffer, Num(0, 1)),
             Num(Len(b._lowLatencyBandwidthBuffer), 1))

\* push(bandwidth), then pop() when the length exceeds 3
pushBandwidth_dropNewest(buf, bandwidth) ==
    LET pushed == Append(buf, bandwidth)
    IN  IF Len(pushed) > 3 THEN SubSeq(pushed, 1, 3) ELSE pushed

\* push(bandwidth), then shift() when the length exceeds 3
pushBandwidth(buf, bandwidth) ==
    LET pushed == Append(buf, bandwidth)
    IN  IF Len(pushed) > 3 THEN Tail(pushed) ELSE pushed

\* addSample with the filter's lower limit inclusive
addSample_filterFrom80(b, durationInMs, numberOfBytes, isChunk) ==
    LET bandwidth     == Num(numberOfBytes * 8000, durationInMs)
        lastBandwidth == getLowLatencyBandwidth(b)
        filtered ==
            /\ isChunk /\ b._lowLatencyMode
            /\ lastBandwidth # Undefined
            /\ Leq(Mul(lastBandwidth, Num(8, 10)), bandwidth)
            /\ Leq(bandwidth, lastBandwidth)
        b1 == IF isChunk /\ b._lowLatencyMode
              THEN [b EXCEPT !._lowLatencyBandwidthBuffer =
                                 pushBandwidth(@, bandwidth)]
              ELSE b
        weight == durationInMs \div 1000
    IN  IF filtered THEN b
        ELSE IF numberOfBytes < ABR_MINIMUM_CHUNK_SIZE THEN b1
        ELSE [b1 EXCEPT
                 !._bytesSampled = @ + numberOfBytes,
                 !._fastEWMA = EWMA_addSample(@, weight, bandwidth),
                 !._slowEWMA = EWMA_addSample(@, weight, bandwidth)]

\* addSample without the check of the sample's size
addSample_anySize(b, durationInMs, numberOfBytes, isChunk) ==
    LET bandwidth     == Num(numberOfBytes * 8000, durationInMs)
        lastBandwidth == getLowLatencyBandwidth(b)
        filtered ==
            /\ isChunk /\ b._lowLatencyMode
            /\ lastBandwidth # Undefined
            /\ Lt(Mul(lastBandwidth, Num(8, 10)), bandwidth)
            /\ Leq(bandwidth, lastBandwidth)
        b1 == IF isChunk /\ b._lowLatencyMode
              THEN [b EXCEPT !._lowLatencyBandwidthBuffer =
                                 pushBandwidth(@, bandwidth)]
              ELSE b
        weight == durationInMs \div 1000
    IN  IF filtered THEN b
        ELSE [b1 EXCEPT
                 !._bytesSampled = @ + numberOfBytes,
                 !._fastEWMA = EWMA_addSample(@, weight, bandwidth),
                 !._slowEWMA = EWMA_addSample(@, weight, bandwidth)]

\* addSample taking every sample of a low-latency estimator as a chunk
addSample_everyChunk(b, durationInMs, numberOfBytes, isChunk) ==
    LET bandwidth     == Num(numberOfBytes * 8000, durationInMs)
        lastBandwidth == getLowLatencyBandwidth(b)
        filtered ==
            /\ b._lowLatencyMode
            /\ lastBandwidth # Undefined
            /\ Lt(Mul(lastBandwidth, Num(8, 10)), bandwidth)
            /\ Leq(bandwidth, lastBandwidth)
        b1 == IF b._lowLatencyMode
              THEN [b EXCEPT !._lowLatencyBandwidthBuffer =
                                 pushBandwidth(@, bandwidth)]
              ELSE b
        weight == durationInMs \div 1000
    IN  IF filtered THEN b
        ELSE IF numberOfBytes < ABR_MINIMUM_CHUNK_SIZE THEN b1
        ELSE [b1 EXCEPT
                 !._bytesSampled = @ + numberOfBytes,
                 !._fastEWMA = EWMA_addSample(@, weight, bandwidth),
                 !._slowEWMA = EWMA_addSample(@, weight, bandwidth)]

\* addSample giving the sample to the fast EWMA alone
addSample_fastOnly(b, durationInMs, numberOfBytes, isChunk) ==
    LET bandwidth     == Num(numberOfBytes * 8000, durationInMs)
        lastBandwidth == getLowLatencyBandwidth(b)
        filtered ==
            /\ isChunk /\ b._lowLatencyMode
            /\ lastBandwidth # Undefined
            /\ Lt(Mul(lastBandwidth, Num(8, 10)), bandwidth)
            /\ Leq(bandwidth, lastBandwidth)
        b1 == IF isChunk /\ b._lowLatencyMode
              THEN [b EXCEPT !._lowLatencyBandwidthBuffer =
                                 pushBandwidth(@, bandwidth)]
              ELSE b
        weight == durationInMs \div 1000
    IN  IF filtered THEN b
        ELSE IF numberOfBytes < ABR_MINIMUM_CHUNK_SIZE THEN b1
        ELSE [b1 EXCEPT
                 !._bytesSampled = @ + numberOfBytes,
                 !._fastEWMA = EWMA_addSample(@, weight, bandwidth)]

\* BandwidthEstimator.addSample(durationInMs, numberOfBytes, isChunk)
addSample(b, durationInMs, numberOfBytes, isChunk) ==
    LET bandwidth     == Num(numberOfBytes * 8000, durationInMs)
        lastBandwidth == getLowLatencyBandwidth(b)
        filtered ==
            /\ isChunk /\ b._lowLatencyMode
            /\ lastBandwidth # Undefined
            /\ Lt(Mul(lastBandwidth, Num(8, 10)), bandwidth)
            /\ Leq(bandwidth, lastBandwidth)
        b1 == IF isChunk /\ b._lowLatencyMode
              THEN [b EXCEPT !._lowLatencyBandwidthBuffer =
                                 pushBandwidth(@, bandwidth)]
              ELSE b
        weight == durationInMs \div 1000     \* exact for SampleDurations
    IN  IF filtered THEN b
        ELSE IF numberOfBytes < ABR_MINIMUM_CHUNK_SIZE THEN b1
        ELSE [b1 EXCEPT
                 !._bytesSampled = @ + numberOfBytes,
                 !._fastEWMA = EWMA_addSample(@, weight, bandwidth),
                 !._slowEWMA = EWMA_addSample(@, weight, bandwidth)]

\* getEstimate comparing _bytesSampled with the minimal size of one sample
getEstimate_chunkMinimum(b, bandwidthMayBeServerLimited) ==
    LET regularEstimate ==
            IF b._bytesSampled < ABR_MINIMUM_CHUNK_SIZE
            THEN Undefined
            ELSE MathMin(EWMA_getEstimate(b._fastEWMA),
                         EWMA_getEstimate(b._slowEWMA))
        lowLatencyBandwidthEstimate == getLowLatencyBandwidth(b)
    IN  IF ~b._lowLatencyMode \/ ~bandwidthMayBeServerLimited
        THEN regularEstimate
        ELSE IF lowLatencyBandwidthEstimate = Undefined THEN regularEstimate
        ELSE IF regularEstimate = Undefined THEN lowLatencyBandwidthEstimate
        ELSE MathMax(lowLatencyBandwidthEstimate, regularEstimate)

\* getEstimate returning the lower of the two estimates
getEstimate_lower(b, bandwidthMayBeServerLimited) ==
    LET regularEstimate ==
            IF b._bytesSampled < ABR_MINIMUM_TOTAL_BYTES
            THEN Undefined
            ELSE MathMin(EWMA_getEstimate(b._fastEWMA),
                         EWMA_getEstimate(b._slowEWMA))
        lowLatencyBandwidthEstimate == getLowLatencyBandwidth(b)
    IN  IF ~b._lowLatencyMode \/ ~bandwidthMayBeServerLimited
        THEN regularEstimate
        ELSE IF lowLatencyBandwidthEstimate = Undefined THEN regularEstimate
        ELSE IF regularEstimate = Undefined THEN lowLatencyBandwidthEstimate
        ELSE MathMin(lowLatencyBandwidthEstimate, regularEstimate)

\* BandwidthEstimator.getEstimate(bandwidthMayBeServerLimited)
getEstimate(b, bandwidthMayBeServerLimited) ==
    LET regularEstimate ==
            IF b._bytesSampled < ABR_MINIMUM_TOTAL_BYTES
            THEN Undefined
            ELSE MathMin(EWMA_getEstimate(b._fastEWMA),
                         EWMA_getEstimate(b._slowEWMA))
        lowLatencyBandwidthEstimate == getLowLatencyBandwidth(b)
    IN  IF ~b._lowLatencyMode \/ ~bandwidthMayBeServerLimited
        THEN regularEstimate
        ELSE IF lowLatencyBandwidthEstimate = Undefined THEN regularEstimate
        ELSE IF regularEstimate = Undefined THEN lowLatencyBandwidthEstimate
        ELSE MathMax(lowLatencyBandwidthEstimate, regularEstimate)

\* reset that also empties the chunk ring
reset_clearsBuffer(b) ==
    [b EXCEPT !._fastEWMA = EWMA(ABR_FAST_EMA),
              !._slowEWMA = EWMA(ABR_SLOW_EMA),
              !._bytesSampled = 0,
              !._lowLatencyBandwidthBuffer = <<>>]

\* reset that also drops the oldest entry of the chunk ring
reset_shiftsBuffer(b) ==
    [b EXCEPT !._fastEWMA = EWMA(ABR_FAST_EMA),
              !._slowEWMA = EWMA(ABR_SLOW_EMA),
              !._bytesSampled = 0,
              !._lowLatencyBandwidthBuffer =
                  IF @ = <<>> THEN @ ELSE Tail(@)]

\* BandwidthEstimator.reset()
reset(b) ==
    [b EXCEPT !._fastEWMA = EWMA(ABR_FAST_EMA),
              !._slowEWMA = EWMA(ABR_SLOW_EMA),
              !._bytesSampled = 0]

\* ------------------------------------------------------ estimator actions

\* inputs: request durations (ms) that are multiples of both half-lives, and
\* sizes below, at and above ABR_MINIMUM_CHUNK_SIZE
SampleDurations == {10000, 20000}
SampleBytes     == {5, 10, 25}

CommitBE(b, op, result) ==
    /\ _fastEWMA' = b._fastEWMA
    /\ _slowEWMA' = b._slowEWMA
    /\ _bytesSampled' = b._bytesSampled
    /\ _lowLatencyMode' = b._lowLatencyMode
    /\ _lowLatencyBandwidthBuffer' = b._lowLatencyBandwidthBuffer
    /\ before' = CurBE
    /\ beOp' = op
    /\ ret' = result
    /\ UNCHANGED <<pvars, msvars>>

BEInit(modes) ==
    /\ \E lowLatencyMode \in modes :
        /\ _fastEWMA = BandwidthEstimator(lowLatencyMode)._fastEWMA
        /\ _slowEWMA = BandwidthEstimator(lowLatencyMode)._slowEWMA
        /\ _bytesSampled = BandwidthEstimator(lowLatencyMode)._bytesSampled
        /\ _lowLatencyMode = BandwidthEstimator(lowLatencyMode)._lowLatencyMode
        /\ _lowLatencyBandwidthBuffer =
               BandwidthEstimator(lowLatencyMode)._lowLatencyBandwidthBuffer
        /\ before = BandwidthEstimator(lowLatencyMode)
    /\ beOp = <<"new">>
    /\ ret = Undefined

AddSample ==
    \E d \in SampleDurations, n \in SampleBytes, isChunk \in BOOLEAN :
        /\ addSample(CurBE, d, n, isChunk)._fastEWMA.totalWeight
               <= MaxWeight * 10
        /\ CommitBE(addSample(CurBE, d, n, isChunk),
                    <<"addSample", d, n, isChunk>>, Undefined)

GetEstimate ==
    \E flag \in BOOLEAN :
        CommitBE(CurBE, <<"getEstimate", flag>>, getEstimate(CurBE, flag))

Reset == CommitBE(reset(CurBE), <<"reset">>, Undefined)

NextBE ==
    \/ AddSample
    \/ GetEstimate
    \/ Reset

\* ==================================================== prepareSourceBuffer
\* src/src/experimental/tools/videoThumbnailLoader/media_source.ts
\*
\* prepareSourceBuffer(elt, codec) is openMediaSource(elt) piped through a
\* mergeMap that turns each media source into an observable of its own (the
\* inner observable), which creates a QueuedSourceBuffer, emits it, never
\* completes, and disposes of the buffer when it is torn down.
\* openMediaSource is taken as a source that may emit media sources, fail or
\* complete.

\* subscriptions[i]: closed: the subscriber is unsubscribed; ended: how
\*   ("none", "unsubscribed", "error", "complete"); sourceDone:
\*   openMediaSource has completed; opened: the media sources it emitted;
\*   received: the QueuedSourceBuffers the subscriber was given
\* queuedSourceBuffers[q]: subscription: the subscription it was created
\*   for; disposed: the number of dispose() calls; teardown: its teardown
\*   function is registered and has not run
CurMS ==
    [subscriptions |-> subscriptions,
     queuedSourceBuffers |-> queuedSourceBuffers]

\* prepareSourceBuffer(elt, codec).subscribe(...)
prepareSourceBuffer(m) ==
    [m EXCEPT !.subscriptions =
        Append(@, [closed |-> FALSE, ended |-> "none", sourceDone |-> FALSE,
                   opened |-> 0, received |-> <<>>])]

\* subscription i is closed: mergeMap unsubscribes its inner observables,
\* whose registered teardowns run, each once: queuedSourceBuffer.dispose()
unsubscribe(m, i, how) ==
    [m EXCEPT !.subscriptions[i].closed = TRUE,
              !.subscriptions[i].ended = how,
              !.queuedSourceBuffers =
                  [q \in DOMAIN m.queuedSourceBuffers |->
                      IF /\ m.queuedSourceBuffers[q].subscription = i
                         /\ m.queuedSourceBuffers[q].teardown
                      THEN [subscription |-> i,
                            disposed |-> m.queuedSourceBuffers[q].disposed + 1,
                            teardown |-> FALSE]
                      ELSE m.queuedSourceBuffers[q]]]

\* the inner observable whose teardown is dropped when the subscriber has
\* unsubscribed before it is returned
innerObservable_teardownLost(m, i, accepts, unsubscribes) ==
    IF ~accepts THEN unsubscribe(m, i, "error")
    ELSE LET q  == Len(m.queuedSourceBuffers) + 1
             m1 == [m EXCEPT !.queuedSourceBuffers =
                        Append(@, [subscription |-> i, disposed |-> 0,
                                   teardown |-> FALSE])]
             m2 == [m1 EXCEPT !.subscriptions[i].received = Append(@, q)]
             m3 == IF unsubscribes THEN unsubscribe(m2, i, "unsubscribed")
                   ELSE m2
             b  == m3.queuedSourceBuffers
         IN  IF m3.subscriptions[i].closed THEN m3
             ELSE [subscriptions |-> m3.subscriptions,
                   queuedSourceBuffers |->
                       [k \in DOMAIN b |->
                           IF k = q
                           THEN [subscription |-> i, disposed |-> b[k].disposed,
                                 teardown |-> TRUE]
                           ELSE b[k]]]

\* the inner observable mergeMap subscribes to for one media source of
\* subscription i: mediaSource.addSourceBuffer(codec) returns (accepts) or
\* throws, and the error goes to the subscriber; new QueuedSourceBuffer;
\* obs.next(queuedSourceBuffer), during which the subscriber may unsubscribe
\* (unsubscribes); the teardown returned is registered, and runs at once
\* when the subscriber is already unsubscribed
innerObservable(m, i, accepts, unsubscribes) ==
    IF ~accepts THEN unsubscribe(m, i, "error")
    ELSE LET q  == Len(m.queuedSourceBuffers) + 1
             m1 == [m EXCEPT !.queuedSourceBuffers =
                        Append(@, [subscription |-> i, disposed |-> 0,
                                   teardown |-> FALSE])]
             m2 == [m1 EXCEPT !.subscriptions[i].received = Append(@, q)]
             m3 == IF unsubscribes THEN unsubscribe(m2, i, "unsubscribed")
                   ELSE m2
             b  == m3.queuedSourceBuffers
             c  == m3.subscriptions[i].closed
         IN  [subscriptions |-> m3.subscriptions,
              queuedSourceBuffers |->
                  [k \in DOMAIN b |->
                      IF k = q
                      THEN [subscription |-> i,
                            disposed |-> IF c THEN b[k].disposed + 1
                                         ELSE b[k].disposed,
                            teardown |-> ~c]
                      ELSE b[k]]]

\* openMediaSource(elt) emits a media source to subscription i
mergeMapNext(m, i, accepts, unsubscribes) ==
    innerObservable([m EXCEPT !.subscriptions[i].opened =
                         m.subscriptions[i].opened + 1],
                    i, accepts, unsubscribes)

\* openMediaSource(elt) completes for subscription i: mergeMap completes
\* when no inner observable is live, and no inner observable completes
mergeMapComplete(m, i) ==
    LET m1 == [m EXCEPT !.subscriptions[i].sourceDone = TRUE]
    IN  IF m1.subscriptions[i].received = <<>>
        THEN unsubscribe(m1, i, "complete")
        ELSE m1

CommitMS(m, op) ==
    /\ subscriptions' = m.subscriptions
    /\ queuedSourceBuffers' = m.queuedSourceBuffers
    /\ msOp' = op
    /\ UNCHANGED <<pvars, bevars>>

MSInit ==
    /\ subscriptions = <<>>
    /\ queuedSourceBuffers = <<>>
    /\ msOp = <<"new">>

\* the subscriptions that are live
Live == {i \in 1..Len(subscriptions) : ~subscriptions[i].closed}

\* those whose openMediaSource can still emit, fail or complete
Sourced == {i \in Live : ~subscriptions[i].sourceDone}

Subscribe ==
    /\ Len(subscriptions) < MaxSubscriptions
    /\ CommitMS(prepareSourceBuffer(CurMS), <<"subscribe">>)

MediaSourceOpened ==
    \E i \in Sourced, accepts \in BOOLEAN, unsubscribes \in BOOLEAN :
        /\ subscriptions[i].opened < MaxMediaSources
        /\ CommitMS(mergeMapNext(CurMS, i, accepts, unsubscribes),
                    <<"mediaSource", i, accepts, unsubscribes>>)

Unsubscribe ==
    \E i \in Live :
        CommitMS(unsubscribe(CurMS, i, "unsubscribed"), <<"unsubscribe", i>>)

SourceError ==
    \E i \in Sourced :
        CommitMS(unsubscribe(CurMS, i, "error"), <<"sourceError", i>>)

SourceComplete ==
    \E i \in Sourced :
        CommitMS(mergeMapComplete(CurMS, i), <<"sourceComplete", i>>)

NextMS ==
    \/ Subscribe
    \/ MediaSourceOpened
    \/ Unsubscribe
    \/ SourceError
    \/ SourceComplete

vars == <<pvars, bevars, msvars>>

\* the Player, beside an estimator nothing is done to
Init == PlayerInit /\ BEInit({FALSE}) /\ MSInit

\* prepareSourceBuffer, beside a Player and an estimator nothing is done to
SpecMS == Init /\ [][NextMS]_vars

Spec == Init /\ [][Next]_vars

\* the BandwidthEstimator of either mode, beside a Player nothing is done to
InitBE == PlayerInit /\ BEInit(BOOLEAN) /\ MSInit

SpecBE == InitBE /\ [][NextBE]_vars

\* the Player and its content
SpecContent == Init /\ [][NextContent]_vars

\* the Player with a listener that can call stop() from inside loadVideo;
\* dispose() is not among its actions
NextListening ==
    \/ Stop
    \/ LoadVideo
    \/ LoadVideoStopping
    \/ StreamLoaded
    \/ StreamStalled
    \/ StreamManifest
    \/ StreamError
    \/ StreamComplete
    \/ PlayPause
    \/ Warning

SpecListening == Init /\ [][NextListening]_vars

\* the player with a listener of playerStateChange that can call stop()
\* during loadVideo, followed through the tracks of its contents
NextTracks ==
    \/ Stop
    \/ LoadVideo
    \/ LoadVideoStopping
    \/ StreamManifest
    \/ StreamBuffer
    \/ StreamError
    \/ StreamComplete

SpecTracks == Init /\ [][NextTracks]_vars

\* the player with a listener of playerStateChange that can load the next
\* content when it is told STOPPED or ENDED
NextReloading ==
    \/ Stop
    \/ LoadVideo
    \/ StreamLoaded
    \/ StreamStalled
    \/ StreamError
    \/ StreamComplete
    \/ PlayPause
    \/ StopReloading
    \/ StreamErrorReloading
    \/ StreamCompleteReloading

SpecReloading == Init /\ [][NextReloading]_vars

\* ------------------------------------------------------- Player claims

\* the playerStateChange payloads of an emission log, in order
RECURSIVE StateChanges(_)
StateChanges(log) ==
    IF log = <<>> THEN <<>>
    ELSE (IF Head(log).type = "playerStateChange"
          THEN <<Head(log).value>> ELSE <<>>) \o StateChanges(Tail(log))

\* the entries of an emission log with the given type
RECURSIVE EventsOf(_, _)
EventsOf(log, type) ==
    IF log = <<>> THEN <<>>
    ELSE (IF Head(log).type = type THEN <<Head(log)>> ELSE <<>>)
         \o EventsOf(Tail(log), type)

\* C1: stop() in the STOPPED state is a no-op (no field changes, nothing is
\* emitted: no playerStateChange, no content-state reset, no clear signal),
\* and from every reachable state a second stop() right after a stop() that
\* returned changes nothing and emits nothing, so stop(); stop() leaves the
\* player as stop() does, with the same emissions.
C1_StopIdempotent ==
    LET r0 == Begin(Cur)
        r1 == stop(r0)
        r2 == stop(Begin(r1))
    IN  /\ (state = PLAYER_STOPPED => r1 = r0)
        /\ (r1.thrown = NoThrow => r2 = Begin(r1))

\* stop() was called on a STOPPED player holding a fatal error, and did nothing
C1_Witness ==
    /\ lastOp[1] = "stop"
    /\ events = <<>>
    /\ thrown = NoThrow
    /\ state = PLAYER_STOPPED
    /\ fatalError \in Errors

\* C2: every dispose() call completes normally, a second one included.
C2_DisposeNeverThrows ==
    lastOp[1] = "dispose" => thrown = NoThrow

\* C3: the first state a loadVideo call enters after STOPPED is LOADING.
C3_LoadEntersLoadingFirst ==
    (lastOp[1] = "loadVideo" /\ thrown = NoThrow) =>
        LET sc    == StateChanges(events)
            after == IF sc # <<>> /\ Head(sc) = PLAYER_STOPPED
                     THEN Tail(sc) ELSE sc
        IN  after # <<>> /\ Head(after) = PLAYER_LOADING

\* C4: a fatal stream error leaves the player STOPPED with the error stored;
\* the `error` event is emitted once, with that error, when the state is
\* already STOPPED and getError() already returns it; and while the state
\* stays STOPPED no operation changes what getError() returns.
C4_ErrorStops ==
    lastOp[1] = "error" =>
        LET errs == EventsOf(events, "error")
        IN  /\ thrown = NoThrow
            /\ state = PLAYER_STOPPED
            /\ fatalError = lastOp[2]
            /\ Len(errs) = 1
            /\ errs[1].value = lastOp[2]
            /\ errs[1].st = PLAYER_STOPPED
            /\ errs[1].err = lastOp[2]

C4_FatalError ==
    /\ []C4_ErrorStops
    /\ [][(state = PLAYER_STOPPED /\ state' = PLAYER_STOPPED)
            => fatalError' = fatalError]_vars

\* after a fatal error, stop() was called and the error is still stored
C4_Witness ==
    /\ lastOp[1] = "stop"
    /\ state = PLAYER_STOPPED
    /\ fatalError \in Errors

\* C5: after a loadVideo call getError() returns null.
C5_LoadClearsError ==
    (lastOp[1] = "loadVideo" /\ thrown = NoThrow) => fatalError = Null

\* the content of the last loadVideo call is loaded: its stream is connected
\* and has emitted `loaded`
LoadedContent ==
    /\ pipes # <<>>
    /\ pipes[Len(pipes)].connected
    /\ pipes[Len(pipes)].phase = "combined"

\* the last stalled value of the content of the last loadVideo call
LastStalled == pipes[Len(pipes)].stalled

\* C11: for a loaded content the state is SEEKING when the latest stalled
\* value is "seeking", BUFFERING when it is any other reason, and only when
\* it is null PLAYING (latest play state: playing) or PAUSED (not playing).
C11_StateFollowsStall ==
    LoadedContent =>
        state = (IF LastStalled = "seeking" THEN PLAYER_SEEKING
                 ELSE IF LastStalled # Null THEN PLAYER_BUFFERING
                 ELSE IF playing THEN PLAYER_PLAYING
                 ELSE PLAYER_PAUSED)

\* C12: a play/pause event received while the media element reports ended
\* changes neither the state nor the play state; any other one makes the
\* play state playing iff it is a "play", and moves a loaded, non-stalled
\* content to PLAYING or PAUSED accordingly; loadVideo sets the play state to
\* autoPlay and nothing else changes it; and when a stall of a loaded
\* content ends, the state becomes PLAYING iff the play state is playing,
\* PAUSED otherwise.
C12_PlayPauseStep ==
    /\ (lastOp'[1] = "playpause" /\ lastOp'[3]) =>
           (state' = state /\ playing' = playing)
    /\ (lastOp'[1] = "playpause" /\ ~lastOp'[3]) =>
           /\ playing' = (lastOp'[2] = "play")
           /\ (LoadedContent /\ LastStalled = Null) =>
                  state' = (IF lastOp'[2] = "play" THEN PLAYER_PLAYING
                            ELSE PLAYER_PAUSED)
    /\ (lastOp'[1] = "loadVideo" /\ thrown' = NoThrow) =>
           playing' = lastOp'[2]
    /\ (lastOp'[1] \notin {"playpause", "loadVideo"}) => playing' = playing
    /\ (lastOp'[1] = "stalled" /\ lastOp'[2] = Null /\ LoadedContent) =>
           state' = (IF playing THEN PLAYER_PLAYING ELSE PLAYER_PAUSED)

C12_PlayPause == [][C12_PlayPauseStep]_vars

\* a stall of a loaded content ended after a "pause" event received during
\* the stall, and the state is PAUSED
C12_Witness ==
    /\ lastOp[1] = "stalled" /\ lastOp[2] = Null
    /\ LoadedContent
    /\ ~playing
    /\ pipes[Len(pipes)].last = PLAYER_PAUSED
    /\ state = PLAYER_PAUSED
    /\ Len(pipes) > 1

\* C13: play/pause and stalled events received while the state is LOADING
\* leave it LOADING; a `loaded` event received while the state is LOADING
\* makes it LOADED; and the state is made LOADED only by the first `loaded`
\* event of a content, hence at most once per loadVideo call.
C13_LoadedStep ==
    /\ (state = PLAYER_LOADING /\ lastOp'[1] \in {"playpause", "stalled"}) =>
           state' = PLAYER_LOADING
    /\ (state = PLAYER_LOADING /\ lastOp'[1] = "loaded") =>
           /\ StateChanges(events') # <<>>
           /\ Head(StateChanges(events')) = PLAYER_LOADED
    /\ (\E k \in 1..Len(events') :
            /\ events'[k].type = "playerStateChange"
            /\ events'[k].value = PLAYER_LOADED) =>
           /\ lastOp'[1] = "loaded"
           /\ pipes[lastOp'[2]].phase = "loading"

C13_LoadingUntilLoaded == [][C13_LoadedStep]_vars

\* C14: when a content's stream completes, the state is ENDED whatever it
\* was, and the manifest, the current adaptations and representations, the
\* recorded bitrates and the stored error are reset; and a player in the
\* ENDED state leaves it only in a call of stop() (dispose() makes one) or
\* of loadVideo().
C14_CompleteEnds ==
    lastOp[1] = "complete" =>
        /\ thrown = NoThrow
        /\ state = PLAYER_ENDED
        /\ events[Len(events)].st = PLAYER_ENDED
        /\ getManifest(Cur) = Null
        /\ currentAdaptations = NoTracks
        /\ currentRepresentations = NoTracks
        /\ getVideoBitrate(Cur) = <<>> /\ getAudioBitrate(Cur) = <<>>
        /\ fatalError = Null
        /\ Connected(Cur) = {}

C14_Ended ==
    /\ []C14_CompleteEnds
    /\ [][(state = PLAYER_ENDED /\ state' # PLAYER_ENDED) =>
              lastOp'[1] \in {"stop", "dispose", "loadVideo"}]_vars

\* the stream of a content with a manifest, a video representation and a
\* recorded video bitrate has completed, and a setter was then called: the
\* state is still ENDED
C14_Witness ==
    /\ lastOp[1] = "setMaxVideoBitrate"
    /\ state = PLAYER_ENDED
    /\ manifest = Null
    /\ currentRepresentations = NoTracks
    /\ recordedEvents = EmptyObject

C16_StopStep ==
    /\ lastOp'[1] = "complete" => ~pipes[lastOp'[2]].unsubscribed
    /\ lastOp'[1] = "error" => ~pipes[lastOp'[3]].unsubscribed
    /\ lastOp'[1] = "stop" =>
           /\ StateChanges(events') \in {<<>>, <<PLAYER_STOPPED>>}
           /\ EventsOf(events', "error") = <<>>

C16_NoTerminalEventAfterStop == [][C16_StopStep]_vars

\* the events of a content
ContentEvents ==
    {"videoBitrateChange", "audioBitrateChange", "manifestChange",
     "progress", "warning"}

\* C17: from a STOPPED player, whatever is done but a loadVideo call leaves
\* the state STOPPED and emits no videoBitrateChange, audioBitrateChange,
\* manifestChange, progress or warning event.
C17_StoppedStep ==
    (state = PLAYER_STOPPED /\ lastOp'[1] # "loadVideo") =>
        /\ state' = PLAYER_STOPPED
        /\ \A k \in 1..Len(events') : events'[k].type \notin ContentEvents

C17_NothingAfterStop == [][C17_StoppedStep]_vars

\* the setters of C18
Setters ==
    {"setMaxVideoBitrate", "setMaxAudioBitrate", "setVideoBitrate",
     "setAudioBitrate", "setWantedBufferAhead", "setMaxBufferAhead",
     "setMaxBufferBehind"}

\* C18: a setter called on a STOPPED player (not disposed of) completes
\* without error, and a manual bitrate so given is the one the chooser holds
\* for the next content.
C18_SettersWhenStopped ==
    (lastOp[1] \in Setters /\ state = PLAYER_STOPPED /\ ~disposed) =>
        /\ thrown = NoThrow
        /\ lastOp[1] = "setVideoBitrate" =>
               abrManager.manual.video = lastOp[2]
        /\ lastOp[1] = "setAudioBitrate" =>
               abrManager.manual.audio = lastOp[2]

\* C19: a non-fatal error of the error stream emits a `warning` event with
\* that error (and its copies on the legacy _stream$ bus) and nothing else,
\* and leaves the state, the stored fatal error, the manifest, the current
\* adaptations and representations, the recorded bitrates, the play state
\* and the contents' subscriptions as they were.
C19_WarningStep ==
    lastOp'[1] = "warning" =>
        /\ thrown' = NoThrow
        /\ state' = state
        /\ fatalError' = fatalError
        /\ manifest' = manifest
        /\ currentAdaptations' = currentAdaptations
        /\ currentRepresentations' = currentRepresentations
        /\ recordedEvents' = recordedEvents
        /\ playing' = playing /\ pipes' = pipes /\ abrManager' = abrManager
        /\ EventsOf(events', "warning") # <<>>
        /\ \A k \in 1..Len(events') :
               /\ events'[k].type \in {"warning", "_stream$"}
               /\ events'[k].type = "warning" => events'[k].value = lastOp'[2]
               /\ events'[k].st = state /\ events'[k].err = fatalError

C19_WarningsChangeNothing == [][C19_WarningStep]_vars

\* a warning was emitted for a stalled content that has a manifest and a
\* recorded video bitrate
C19_Witness ==
    /\ lastOp[1] = "warning"
    /\ EventsOf(events, "warning") # <<>>
    /\ state = PLAYER_BUFFERING
    /\ manifest # Null
    /\ getVideoBitrate(Cur) # <<>>

\* C20: for a content with a manifest, setVideoBitrate(b) with b > 0 among
\* the bitrates of the current video adaptation completes without error and
\* getVideoBitrate() then returns b; likewise setAudioBitrate(b) and
\* getAudioBitrate() for the current audio adaptation.
C20_RoundTripStep ==
    /\ (/\ lastOp'[1] = "setVideoBitrate" /\ lastOp'[2] > 0
        /\ manifest # Null
        /\ lastOp'[2] \in getAvailableVideoBitrates(Cur)) =>
           /\ thrown' = NoThrow
           /\ getVideoBitrate(Cur)' = <<lastOp'[2]>>
    /\ (/\ lastOp'[1] = "setAudioBitrate" /\ lastOp'[2] > 0
        /\ manifest # Null
        /\ lastOp'[2] \in getAvailableAudioBitrates(Cur)) =>
           /\ thrown' = NoThrow
           /\ getAudioBitrate(Cur)' = <<lastOp'[2]>>

Forwarded ==
    {"loaded", "stalled", "manifest", "manifestUpdate", "buffer",
     "pipeline", "warning", "error", "complete"}

\* C21: a stream event, a warning, a fatal error or the end of the stream,
\* handled by the player, is put on the legacy _stream$ bus exactly once,
\* and its handler raises nothing.
C21_ForwardedOnce ==
    lastOp[1] \in Forwarded =>
        /\ thrown = NoThrow
        /\ Len(EventsOf(events, "_stream$")) = 1

\* C22: while the state is STOPPED, getManifest() returns null, and so do
\* getCurrentAdaptations() and getCurrentRepresentations().
C22_NothingKeptWhenStopped ==
    state = PLAYER_STOPPED =>
        /\ getManifest(Cur) = Null
        /\ getCurrentAdaptations(Cur) = <<>>
        /\ getCurrentRepresentations(Cur) = <<>>

\* C23: setVideoBitrate(b) with no manifest, or with b not 0 and not among
\* the bitrates of the current video adaptation, throws and leaves the
\* chooser's manual bitrates as they were; likewise setAudioBitrate(b).
C23_RejectedStep ==
    /\ (/\ lastOp'[1] = "setVideoBitrate"
        /\ \/ manifest = Null
           \/ /\ lastOp'[2] # 0
              /\ lastOp'[2] \notin getAvailableVideoBitrates(Cur)) =>
           /\ thrown' # NoThrow
           /\ abrManager' = abrManager
    /\ (/\ lastOp'[1] = "setAudioBitrate"
        /\ \/ manifest = Null
           \/ /\ lastOp'[2] # 0
              /\ lastOp'[2] \notin getAvailableAudioBitrates(Cur)) =>
           /\ thrown' # NoThrow
           /\ abrManager' = abrManager

C23_Rejected == [][C23_RejectedStep]_vars

\* setVideoBitrate(2) has thrown for a content with a manifest whose video
\* adaptation has no such bitrate, while the audio bitrate is pinned
C23_Witness ==
    /\ lastOp = <<"setVideoBitrate", 2>>
    /\ thrown = AssertionError
    /\ manifest # Null
    /\ currentAdaptations.video = "A1"
    /\ abrManager.manual.audio = 2
    /\ abrManager.manual.video = 0

\* C24: with a manifest, setVideoBitrate and setAudioBitrate given 0 or
\* undefined do not throw and leave the chooser with no manual bitrate for
\* the type.
C24_AutomaticStep ==
    /\ (/\ lastOp'[1] = "setVideoBitrate" /\ manifest # Null
        /\ lastOp'[2] \in {0, NoBitrate}) =>
           /\ thrown' = NoThrow
           /\ abrManager'.manual.video = 0
    /\ (/\ lastOp'[1] = "setAudioBitrate" /\ manifest # Null
        /\ lastOp'[2] \in {0, NoBitrate}) =>
           /\ thrown' = NoThrow
           /\ abrManager'.manual.audio = 0

C24_Automatic == [][C24_AutomaticStep]_vars

\* the bitrate a "buffer" event carries: -1 for no representation
CarriedBitrate(representation) ==
    IF representation = Null THEN -1 ELSE bitrate(representation)

\* C29: a "buffer" event for video emits one videoBitrateChange, with the
\* bitrate it carries (-1 for a null representation), when that bitrate is
\* not the one last recorded for the content, and nothing when it is;
\* getVideoBitrate() then returns that bitrate; likewise for audio.  A
\* content starts with no bitrate recorded, and nothing but a "buffer"
\* event or a bitrate setter emits such an event or records a bitrate.
C29_BitrateStep ==
    /\ lastOp'[1] = "buffer" =>
           LET key == lastOp'[2] \o "Bitrate"
               btr == CarriedBitrate(lastOp'[4])
               ev  == EventsOf(events', key \o "Change")
               other == IF lastOp'[2] = "video" THEN "audioBitrateChange"
                        ELSE "videoBitrateChange"
           IN  /\ IF key \in DOMAIN recordedEvents /\ recordedEvents[key] = btr
                  THEN ev = <<>>
                  ELSE Len(ev) = 1 /\ ev[1].value = btr
               /\ EventsOf(events', other) = <<>>
               /\ IF lastOp'[2] = "video"
                  THEN /\ getVideoBitrate(Cur)' = <<btr>>
                       /\ getAudioBitrate(Cur)' = getAudioBitrate(Cur)
                  ELSE /\ getAudioBitrate(Cur)' = <<btr>>
                       /\ getVideoBitrate(Cur)' = getVideoBitrate(Cur)
    /\ lastOp'[1] \notin {"buffer", "setVideoBitrate", "setAudioBitrate"} =>
           /\ EventsOf(events', "videoBitrateChange") = <<>>
           /\ EventsOf(events', "audioBitrateChange") = <<>>
           /\ getVideoBitrate(Cur)' \in {getVideoBitrate(Cur), <<>>}
           /\ getAudioBitrate(Cur)' \in {getAudioBitrate(Cur), <<>>}
    /\ (lastOp'[1] = "loadVideo" /\ thrown' = NoThrow) =>
           recordedEvents' = EmptyObject

C30_StateChangeStep ==
    LET chain == <<state>> \o StateChanges(events')
    IN  /\ \A k \in 1..(Len(chain) - 1) : chain[k] # chain[k + 1]
        /\ state' = chain[Len(chain)]

C30_StateChangeEvents == [][C30_StateChangeStep]_vars

\* the error handler ran for a player already STOPPED and emitted no
\* playerStateChange
C30_Witness ==
    /\ lastOp[1] = "error"
    /\ state = PLAYER_STOPPED
    /\ EventsOf(events, "error") # <<>>
    /\ StateChanges(events) = <<>>

\* C31: the first "loaded" event of a content sets the state to LOADED and
\* then, in the same step, to PLAYING when the play state (autoPlay, or the
\* play or pause event that came last) is playing, to PAUSED when it is
\* not: never to BUFFERING or SEEKING, whatever "stalled" events came
\* before.
C31_LoadedStep ==
    (lastOp'[1] = "loaded" /\ pipes[lastOp'[2]].phase = "loading") =>
        LET next == IF playing THEN PLAYER_PLAYING ELSE PLAYER_PAUSED
        IN  /\ StateChanges(events') = <<PLAYER_LOADED, next>>
            /\ state' = next
            /\ playing' = playing

C31_LoadedThenPlayState == [][C31_LoadedStep]_vars

\* the first "loaded" of a second content, loaded without autoPlay, was
\* followed by PLAYING
C31_Witness ==
    /\ lastOp = <<"loaded", 2>>
    /\ StateChanges(events) = <<PLAYER_LOADED, PLAYER_PLAYING>>
    /\ state = PLAYER_PLAYING
    /\ pipes[2].stalled = Null

\* C32: a loadVideo call on a player that is not STOPPED emits STOPPED and
\* then LOADING as its first two playerStateChange events, the content's
\* state being reset when STOPPED is emitted.
C32_ReloadStep ==
    (lastOp'[1] = "loadVideo" /\ state # PLAYER_STOPPED
     /\ thrown' = NoThrow) =>
        LET changes == EventsOf(events', "playerStateChange")
        IN  /\ Len(changes) >= 2
            /\ changes[1].value = PLAYER_STOPPED
            /\ changes[1].err = Null
            /\ changes[2].value = PLAYER_LOADING

C32_StoppedThenLoading == [][C32_ReloadStep]_vars

\* C33: only the content loaded last, and only while it is neither
\* stopped, ended nor failed, has a state pipeline subscribed to _playing$:
\* at most one such subscription is live.
C33_OneStatePipeline ==
    \A i \in 1..Len(pipes) :
        pipes[i].phase = "combined" =>
            /\ i = Len(pipes)
            /\ ~pipes[i].unsubscribed

\* the operation ran with a listener that called loadVideo
Reloaded(op) == Len(op) >= 3 /\ op[Len(op) - 1] = "loadVideo"

\* C34: when a listener of playerStateChange calls loadVideo during stop(),
\* during the error handler or during the completion handler, the content
\* so loaded is still there when the operation returns: its stream is
\* connected, its subscriptions are live, and the state is LOADING, the
\* state it set.
C34_ReloadStep ==
    (Reloaded(lastOp') /\ Len(pipes') = Len(pipes) + 1
     /\ thrown' = NoThrow) =>
        /\ pipes'[Len(pipes')].connected
        /\ ~pipes'[Len(pipes')].unsubscribed
        /\ state' = PLAYER_LOADING

C34_ReloadSurvives == [][C34_ReloadStep]_vars

\* --------------------------------------------------- estimator claims

\* the arithmetic mean of a full chunk ring, `undefined` for any other
RingMean(buf) ==
    IF Len(buf) = 3
    THEN Mul(Add(Add(buf[1], buf[2]), buf[3]), Num(1, 3))
    ELSE Undefined

\* the low-latency estimate of estimator b
LowLat(b) ==
    IF b._lowLatencyMode THEN RingMean(b._lowLatencyBandwidthBuffer)
    ELSE Undefined

\* the regular estimate of estimator b
Regular(b) ==
    IF b._bytesSampled >= ABR_MINIMUM_TOTAL_BYTES
    THEN MathMin(EWMA_getEstimate(b._fastEWMA), EWMA_getEstimate(b._slowEWMA))
    ELSE Undefined

\* bytes * 8000 / durationMs
SampleBandwidth(durationMs, bytes) == Num(bytes * 8000, durationMs)

\* the filter's condition on a chunk sample given to estimator b:
\* mean * 0.8 < bw <= mean, for the mean of a full ring
Rejects(b, durationMs, bytes) ==
    LET mean == RingMean(b._lowLatencyBandwidthBuffer)
        bw   == SampleBandwidth(durationMs, bytes)
    IN  /\ mean # Undefined
        /\ Lt(Mul(mean, Num(4, 5)), bw)
        /\ Leq(bw, mean)

\* the ring after bw is appended, the oldest entry dropped beyond 3
Pushed(buf, bw) ==
    IF Len(buf) = 3 THEN <<buf[2], buf[3], bw>> ELSE Append(buf, bw)

\* C6 (as claimed): while bytesSampled < ABR_MINIMUM_TOTAL_BYTES, getEstimate
\* returns undefined in either mode and for either argument.
C6_UndefinedBelowMinimum ==
    _bytesSampled < ABR_MINIMUM_TOTAL_BYTES =>
        \A flag \in BOOLEAN : getEstimate(CurBE, flag) = Undefined

\* C6 (amended): while bytesSampled < ABR_MINIMUM_TOTAL_BYTES,
\* getEstimate(false) returns undefined, and getEstimate(true) returns
\* undefined unless the estimator is in low-latency mode with a full chunk
\* ring, when it returns the mean of the ring.
C6_UndefinedBelowMinimumUnlessRing ==
    _bytesSampled < ABR_MINIMUM_TOTAL_BYTES =>
        /\ getEstimate(CurBE, FALSE) = Undefined
        /\ getEstimate(CurBE, TRUE) = LowLat(CurBE)

\* getEstimate(true) returned a number though some bytes, but fewer than the
\* minimum, had been sampled
C6_Witness ==
    /\ beOp = <<"getEstimate", TRUE>>
    /\ _bytesSampled > 0
    /\ _bytesSampled < ABR_MINIMUM_TOTAL_BYTES
    /\ IsNum(ret)
    /\ getEstimate(CurBE, FALSE) = Undefined

\* C7: a chunk sample given to a low-latency estimator whose full ring has
\* mean m, with m * 0.8 < bw <= m, changes nothing (ring, EWMAs,
\* bytesSampled, hence both estimates); any other chunk sample given to a
\* low-latency estimator is pushed onto the ring.
C7_ChunkFilter ==
    (beOp[1] = "addSample" /\ beOp[4] /\ before._lowLatencyMode) =>
        IF Rejects(before, beOp[2], beOp[3])
        THEN /\ CurBE = before
             /\ \A flag \in BOOLEAN :
                    getEstimate(CurBE, flag) = getEstimate(before, flag)
        ELSE _lowLatencyBandwidthBuffer =
                 Pushed(before._lowLatencyBandwidthBuffer,
                        SampleBandwidth(beOp[2], beOp[3]))

\* a chunk sample large enough for the EWMAs was rejected by the filter
C7_Witness ==
    /\ beOp[1] = "addSample" /\ beOp[4] /\ before._lowLatencyMode
    /\ Rejects(before, beOp[2], beOp[3])
    /\ beOp[3] >= ABR_MINIMUM_CHUNK_SIZE
    /\ CurBE = before

\* C8 (as claimed): an addSample with bytes < ABR_MINIMUM_CHUNK_SIZE changes
\* no estimator state.
C8_SmallSampleChangesNothing ==
    (beOp[1] = "addSample" /\ beOp[3] < ABR_MINIMUM_CHUNK_SIZE) =>
        CurBE = before

\* C8 (amended): an addSample with bytes < ABR_MINIMUM_CHUNK_SIZE changes
\* neither EWMA nor bytesSampled, so getEstimate(false) is unchanged; it
\* leaves the chunk ring and getEstimate(true) unchanged too, unless it is a
\* chunk sample given to a low-latency estimator that the filter does not
\* reject, which is pushed onto the ring.
C8_SmallSampleKeepsEWMAs ==
    (beOp[1] = "addSample" /\ beOp[3] < ABR_MINIMUM_CHUNK_SIZE) =>
        /\ _fastEWMA = before._fastEWMA
        /\ _slowEWMA = before._slowEWMA
        /\ _bytesSampled = before._bytesSampled
        /\ _lowLatencyMode = before._lowLatencyMode
        /\ getEstimate(CurBE, FALSE) = getEstimate(before, FALSE)
        /\ IF beOp[4] /\ before._lowLatencyMode
              /\ ~Rejects(before, beOp[2], beOp[3])
           THEN _lowLatencyBandwidthBuffer =
                    Pushed(before._lowLatencyBandwidthBuffer,
                           SampleBandwidth(beOp[2], beOp[3]))
           ELSE /\ CurBE = before
                /\ getEstimate(CurBE, TRUE) = getEstimate(before, TRUE)

\* a chunk sample below the minimal size changed what getEstimate(true)
\* returns
C8_Witness ==
    /\ beOp[1] = "addSample" /\ beOp[3] < ABR_MINIMUM_CHUNK_SIZE
    /\ getEstimate(before, TRUE) # Undefined
    /\ getEstimate(CurBE, TRUE) # getEstimate(before, TRUE)
    /\ _bytesSampled >= ABR_MINIMUM_TOTAL_BYTES

\* C9: getEstimate(false), and getEstimate(true) when low-latency mode is
\* off, return the regular estimate; in low-latency mode getEstimate(true)
\* returns the larger of the regular and the low-latency estimates when
\* both are defined, the defined one when one is, undefined when none is;
\* so getEstimate(true) >= getEstimate(false) when both are defined.
C9_GetEstimate ==
    LET regular == Regular(CurBE)
        lowLat  == LowLat(CurBE)
        est     == getEstimate(CurBE, TRUE)
    IN  /\ getEstimate(CurBE, FALSE) = regular
        /\ ~_lowLatencyMode => est = regular
        /\ (regular # Undefined /\ lowLat # Undefined) =>
               /\ est \in {regular, lowLat}
               /\ Leq(regular, est) /\ Leq(lowLat, est)
        /\ (regular = Undefined /\ lowLat # Undefined) => est = lowLat
        /\ lowLat = Undefined => est = regular
        /\ (IsNum(est) /\ IsNum(getEstimate(CurBE, FALSE))) =>
               Leq(getEstimate(CurBE, FALSE), est)

\* getEstimate(true) returned the low-latency estimate, above a defined
\* regular estimate
C9_Witness ==
    /\ beOp = <<"getEstimate", TRUE>>
    /\ IsNum(Regular(CurBE)) /\ IsNum(LowLat(CurBE))
    /\ Lt(Regular(CurBE), LowLat(CurBE))
    /\ ret = LowLat(CurBE)

\* C10: reset() leaves an estimator as new but for its chunk ring:
\* bytesSampled is 0 and both EWMAs are rebuilt, so getEstimate(false) is
\* undefined; the ring and the mode are those of before, so in low-latency
\* mode with a full ring getEstimate(true) is the mean of the ring.
C10_Reset ==
    beOp[1] = "reset" =>
        /\ _bytesSampled = 0
        /\ _fastEWMA = EWMA(ABR_FAST_EMA)
        /\ _slowEWMA = EWMA(ABR_SLOW_EMA)
        /\ getEstimate(CurBE, FALSE) = Undefined
        /\ _lowLatencyBandwidthBuffer = before._lowLatencyBandwidthBuffer
        /\ _lowLatencyMode = before._lowLatencyMode
        /\ getEstimate(CurBE, TRUE) = LowLat(before)

\* reset() of a low-latency estimator whose regular estimate was defined and
\* whose ring is full: getEstimate(true) is still a number
C10_Witness ==
    /\ beOp[1] = "reset"
    /\ _lowLatencyMode
    /\ Len(_lowLatencyBandwidthBuffer) = 3
    /\ IsNum(getEstimate(before, FALSE))
    /\ IsNum(getEstimate(CurBE, TRUE))

\* C25: the chunk ring never holds more than 3 bandwidths, and an addSample
\* call either leaves it as it was or, for a chunk sample a low-latency
\* estimator accepts, appends the sample's bandwidth at its end, the oldest
\* entry dropped when that makes 4; no other operation touches it.
C25_RingFIFO ==
    /\ Len(_lowLatencyBandwidthBuffer) <= 3
    /\ IF /\ beOp[1] = "addSample" /\ beOp[4] /\ before._lowLatencyMode
          /\ ~Rejects(before, beOp[2], beOp[3])
       THEN LET old == before._lowLatencyBandwidthBuffer
                bw  == SampleBandwidth(beOp[2], beOp[3])
                n   == Len(_lowLatencyBandwidthBuffer)
            IN  /\ n = IF Len(old) = 3 THEN 3 ELSE Len(old) + 1
                /\ _lowLatencyBandwidthBuffer[n] = bw
                /\ \A k \in 1..(n - 1) :
                       _lowLatencyBandwidthBuffer[k] =
                           old[k + (Len(old) + 1 - n)]
       ELSE _lowLatencyBandwidthBuffer = before._lowLatencyBandwidthBuffer

\* a chunk sample was appended to a full ring of three different
\* bandwidths, whose oldest is gone
C25_Witness ==
    /\ beOp[1] = "addSample" /\ beOp[4]
    /\ Len(before._lowLatencyBandwidthBuffer) = 3
    /\ before._lowLatencyBandwidthBuffer[1] # before._lowLatencyBandwidthBuffer[2]
    /\ before._lowLatencyBandwidthBuffer[2] # before._lowLatencyBandwidthBuffer[3]
    /\ _lowLatencyBandwidthBuffer # before._lowLatencyBandwidthBuffer
    /\ _lowLatencyBandwidthBuffer[1] = before._lowLatencyBandwidthBuffer[2]
    /\ _lowLatencyBandwidthBuffer[3] = SampleBandwidth(beOp[2], beOp[3])

\* C26: the low-latency estimate is undefined while the ring holds fewer
\* than 3 entries and is the arithmetic mean of the ring when it holds 3;
\* so a chunk sample given to a low-latency estimator whose ring holds
\* fewer than 3 entries is appended to the ring, whatever its bandwidth.
C26_LowLatencyEstimate ==
    /\ getLowLatencyBandwidth(CurBE) = RingMean(_lowLatencyBandwidthBuffer)
    /\ (getLowLatencyBandwidth(CurBE) # Undefined) <=>
           (Len(_lowLatencyBandwidthBuffer) = 3)
    /\ (/\ beOp[1] = "addSample" /\ beOp[4] /\ before._lowLatencyMode
        /\ Len(before._lowLatencyBandwidthBuffer) < 3) =>
           _lowLatencyBandwidthBuffer =
               Append(before._lowLatencyBandwidthBuffer,
                      SampleBandwidth(beOp[2], beOp[3]))

\* the third chunk sample of a low-latency estimator was appended though
\* its bandwidth is that of the two before it
C26_Witness ==
    /\ beOp[1] = "addSample" /\ beOp[4] /\ _lowLatencyMode
    /\ Len(before._lowLatencyBandwidthBuffer) = 2
    /\ before._lowLatencyBandwidthBuffer[1] = SampleBandwidth(beOp[2], beOp[3])
    /\ before._lowLatencyBandwidthBuffer[2] = SampleBandwidth(beOp[2], beOp[3])
    /\ Len(_lowLatencyBandwidthBuffer) = 3
    /\ getLowLatencyBandwidth(CurBE) = SampleBandwidth(beOp[2], beOp[3])

\* C27: only an addSample call with isChunk true on a low-latency estimator
\* changes the chunk ring; a sample that is not a chunk is never filtered
\* (of at least the minimal size, it reaches both EWMAs and bytesSampled);
\* without low-latency mode the ring is empty and getEstimate(true) is
\* getEstimate(false).
C27_ChunksOnly ==
    /\ ~(beOp[1] = "addSample" /\ beOp[4] /\ before._lowLatencyMode) =>
           _lowLatencyBandwidthBuffer = before._lowLatencyBandwidthBuffer
    /\ (/\ beOp[1] = "addSample" /\ ~beOp[4]
        /\ beOp[3] >= ABR_MINIMUM_CHUNK_SIZE) =>
           /\ _bytesSampled = before._bytesSampled + beOp[3]
           /\ _fastEWMA # before._fastEWMA
           /\ _slowEWMA # before._slowEWMA
    /\ _lowLatencyMode = before._lowLatencyMode
    /\ ~_lowLatencyMode =>
           /\ _lowLatencyBandwidthBuffer = <<>>
           /\ getEstimate(CurBE, TRUE) = getEstimate(CurBE, FALSE)

\* a sample that is not a chunk, which the filter would reject as a chunk,
\* reached the EWMAs of a low-latency estimator and left its full ring as
\* it was
C27_Witness ==
    /\ beOp[1] = "addSample" /\ ~beOp[4] /\ _lowLatencyMode
    /\ Rejects(before, beOp[2], beOp[3])
    /\ _bytesSampled = before._bytesSampled + beOp[3]
    /\ _bytesSampled > before._bytesSampled
    /\ _lowLatencyBandwidthBuffer = before._lowLatencyBandwidthBuffer

\* C28: once bytesSampled >= ABR_MINIMUM_TOTAL_BYTES, getEstimate(false) is
\* the lower of the estimates of the fast and the slow EWMA; a sample that
\* is not rejected by the filter and has at least ABR_MINIMUM_CHUNK_SIZE
\* bytes is given to both EWMAs, with weight durationMs / 1000 and
\* bandwidth bytes * 8000 / durationMs, and its bytes are added to
\* bytesSampled; any other sample leaves the three as they were, so the two
\* EWMAs have always taken the same samples.
C28_RegularEstimate ==
    /\ _bytesSampled >= ABR_MINIMUM_TOTAL_BYTES =>
           /\ IsNum(getEstimate(CurBE, FALSE))
           /\ getEstimate(CurBE, FALSE) \in
                  {EWMA_getEstimate(_fastEWMA), EWMA_getEstimate(_slowEWMA)}
           /\ Leq(getEstimate(CurBE, FALSE), EWMA_getEstimate(_fastEWMA))
           /\ Leq(getEstimate(CurBE, FALSE), EWMA_getEstimate(_slowEWMA))
    /\ _fastEWMA.totalWeight = _slowEWMA.totalWeight
    /\ beOp[1] = "addSample" =>
           IF /\ beOp[3] >= ABR_MINIMUM_CHUNK_SIZE
              /\ ~(beOp[4] /\ before._lowLatencyMode
                   /\ Rejects(before, beOp[2], beOp[3]))
           THEN /\ _bytesSampled = before._bytesSampled + beOp[3]
                /\ _fastEWMA =
                       EWMA_addSample(before._fastEWMA, beOp[2] \div 1000,
                                      SampleBandwidth(beOp[2], beOp[3]))
                /\ _slowEWMA =
                       EWMA_addSample(before._slowEWMA, beOp[2] \div 1000,
                                      SampleBandwidth(beOp[2], beOp[3]))
           ELSE /\ _bytesSampled = before._bytesSampled
                /\ _fastEWMA = before._fastEWMA
                /\ _slowEWMA = before._slowEWMA

\* getEstimate(false) returned the estimate of one EWMA, lower than the
\* other's, after samples of different bandwidths
C28_Witness ==
    /\ beOp = <<"getEstimate", FALSE>>
    /\ _bytesSampled >= ABR_MINIMUM_TOTAL_BYTES
    /\ IsNum(ret)
    /\ EWMA_getEstimate(_fastEWMA) # EWMA_getEstimate(_slowEWMA)
    /\ ret \in {EWMA_getEstimate(_fastEWMA), EWMA_getEstimate(_slowEWMA)}

\* C35: no operation shortens the chunk ring, and getEstimate changes
\* nothing of the estimator; so a low-latency estimate that is defined stays
\* defined, through addSample, getEstimate and reset.
C35_RingNeverShrinks ==
    /\ Len(_lowLatencyBandwidthBuffer) >= Len(before._lowLatencyBandwidthBuffer)
    /\ beOp[1] = "getEstimate" => CurBE = before
    /\ getLowLatencyBandwidth(before) # Undefined =>
           /\ getLowLatencyBandwidth(CurBE) # Undefined
           /\ _lowLatencyMode => IsNum(getEstimate(CurBE, TRUE))

\* reset() of a low-latency estimator that had sampled bytes left its
\* low-latency estimate defined
C35_Witness ==
    /\ beOp[1] = "reset"
    /\ before._bytesSampled > 0
    /\ _bytesSampled = 0
    /\ getLowLatencyBandwidth(before) # Undefined
    /\ getLowLatencyBandwidth(CurBE) = getLowLatencyBandwidth(before)

\* --------------------------------------------- prepareSourceBuffer claims

\* the observable completes only when openMediaSource completed before it
\* opened a media source
NeverCompletesAlone ==
    \A i \in 1..Len(subscriptions) :
        subscriptions[i].ended = "complete" =>
            /\ subscriptions[i].sourceDone
            /\ subscriptions[i].received = <<>>

\* a QueuedSourceBuffer is disposed of, once, when the subscription it was
\* created for is unsubscribed, and not before
DisposedWithSubscription ==
    \A q \in 1..Len(queuedSourceBuffers) :
        queuedSourceBuffers[q].disposed =
            IF subscriptions[queuedSourceBuffers[q].subscription].closed
            THEN 1 ELSE 0

\* each QueuedSourceBuffer was given to the subscription it was created for
ReceivedByOwner ==
    \A i \in 1..Len(subscriptions) :
        \A k \in 1..Len(subscriptions[i].received) :
            queuedSourceBuffers[subscriptions[i].received[k]].subscription = i

\* C36 (as claimed): each media source opened makes one QueuedSourceBuffer,
\* given to the subscriber; the observable does not complete on its own;
\* each QueuedSourceBuffer is disposed of exactly when the subscription
\* that received it is unsubscribed.
C36_OneBufferStep ==
    /\ NeverCompletesAlone' /\ DisposedWithSubscription' /\ ReceivedByOwner'
    /\ msOp'[1] = "mediaSource" =>
           /\ Len(queuedSourceBuffers') = Len(queuedSourceBuffers) + 1
           /\ subscriptions'[msOp'[2]].received =
                  Append(subscriptions[msOp'[2]].received,
                         Len(queuedSourceBuffers'))
    /\ msOp'[1] # "mediaSource" =>
           Len(queuedSourceBuffers') = Len(queuedSourceBuffers)

C36_OneBufferPerMediaSource == [][C36_OneBufferStep]_vars

\* C36 (amended): each media source opened whose addSourceBuffer(codec)
\* call returns makes one QueuedSourceBuffer, given to the subscriber; when
\* the call throws none is made and the subscription ends with the error;
\* the observable does not complete on its own; each QueuedSourceBuffer is
\* disposed of exactly when the subscription that received it is
\* unsubscribed.
C36_AcceptedStep ==
    /\ NeverCompletesAlone' /\ DisposedWithSubscription' /\ ReceivedByOwner'
    /\ (msOp'[1] = "mediaSource" /\ msOp'[3]) =>
           /\ Len(queuedSourceBuffers') = Len(queuedSourceBuffers) + 1
           /\ subscriptions'[msOp'[2]].received =
                  Append(subscriptions[msOp'[2]].received,
                         Len(queuedSourceBuffers'))
    /\ (msOp'[1] = "mediaSource" /\ ~msOp'[3]) =>
           /\ Len(queuedSourceBuffers') = Len(queuedSourceBuffers)
           /\ subscriptions'[msOp'[2]].ended = "error"
           /\ subscriptions'[msOp'[2]].received =
                  subscriptions[msOp'[2]].received
    /\ msOp'[1] # "mediaSource" =>
           Len(queuedSourceBuffers') = Len(queuedSourceBuffers)

C36_OneBufferPerAcceptedMediaSource == [][C36_AcceptedStep]_vars

\* a subscriber that had received a QueuedSourceBuffer unsubscribed while
\* it was given a second one, and both are disposed of, once each
C36_Witness ==
    /\ msOp[1] = "mediaSource" /\ msOp[3] /\ msOp[4]
    /\ Len(subscriptions[msOp[2]].received) = 2
    /\ subscriptions[msOp[2]].ended = "unsubscribed"
    /\ \A k \in 1..2 :
           queuedSourceBuffers[subscriptions[msOp[2]].received[k]].disposed = 1

=============================================================================
